---- MODULE Spec2Model ----
(***************************************************************************)
(* The natural-language-to-SQL query core of the BI agent:                 *)
(*   QueryGenerator.generate_sql   (src/utils/data_utilities.py)           *)
(*   nlp_to_sql                    (src/utils/query_utils.py)              *)
(* Texts are TLA+ strings; a schema is the sequence of its (name, info)    *)
(* items in dict insertion order.                                          *)
(***************************************************************************)
EXTENDS Naturals, Sequences, FiniteSets, TLC

VARIABLES
    query_templates, \* QueryGenerator.query_templates, set by __init__
    schema,          \* the schema dict the caller holds and passes in
    query_text,      \* the query text the caller holds and passes in
    n_words,         \* how many words the caller has put into query_text
    pc,              \* "input": composing a request; "returned": a call ended
    impl,            \* which entry point the last call used
    handler,         \* the builder the last call dispatched to
    resolved_table,  \* the table_name the dispatched builder resolved
    result,          \* the outcome of the last call
    seen,            \* an earlier call kept for comparison: args and outcome
    schemas,         \* SchemaManager.schemas of the DataAgent
    context,         \* ContextManager.context of the DataAgent
    results,         \* the result rows the last call worked on
    submitted        \* every query given to the ContextManager, in order

vars ==
    <<query_templates, schema, query_text, n_words, pc, impl, handler,
      resolved_table, result, seen,
      schemas, context, results, submitted>>

\* the state of the DataAgent and of its callers
agent_vars == <<schemas, context, results, submitted>>

(***************************************************************************)
(* Bounds of the model.                                                    *)
(***************************************************************************)
MaxWords == 2
MaxTables == 2
MaxQueries == 7
MaxCalls == 3
MaxColumns == 3

(***************************************************************************)
(* Python str operations.                                                  *)
(***************************************************************************)
\* the upper-case letters and their lower-case forms
LowerOf ==
    [c \in {"A", "B", "C", "D", "E", "F", "G", "H", "I", "J", "K", "L", "M", "N",
            "O", "P", "Q", "R", "S", "T", "U", "V", "W", "X", "Y", "Z"} |->
        CASE c = "A" -> "a" [] c = "B" -> "b" [] c = "C" -> "c" [] c = "D" -> "d"
          [] c = "E" -> "e" [] c = "F" -> "f" [] c = "G" -> "g" [] c = "H" -> "h"
          [] c = "I" -> "i" [] c = "J" -> "j" [] c = "K" -> "k" [] c = "L" -> "l"
          [] c = "M" -> "m" [] c = "N" -> "n" [] c = "O" -> "o" [] c = "P" -> "p"
          [] c = "Q" -> "q" [] c = "R" -> "r" [] c = "S" -> "s" [] c = "T" -> "t"
          [] c = "U" -> "u" [] c = "V" -> "v" [] c = "W" -> "w" [] c = "X" -> "x"
          [] c = "Y" -> "y" [] c = "Z" -> "z"]

\* ch.lower() for one character
LowerChar(c) == IF c \in DOMAIN LowerOf THEN LowerOf[c] ELSE c

RECURSIVE Lower(_)
\* s.lower()
Lower(s) ==
    IF Len(s) = 0 THEN ""
    ELSE LowerChar(SubSeq(s, 1, 1)) \o Lower(SubSeq(s, 2, Len(s)))

RECURSIVE ReplaceUnderscore(_)
\* s.replace('_', ' ')
ReplaceUnderscore(s) ==
    IF Len(s) = 0 THEN ""
    ELSE (IF SubSeq(s, 1, 1) = "_" THEN " " ELSE SubSeq(s, 1, 1))
         \o ReplaceUnderscore(SubSeq(s, 2, Len(s)))

\* k in s
Contains(s, k) ==
    \E i \in 1..(Len(s) + 1) :
        /\ i + Len(k) - 1 <= Len(s)
        /\ SubSeq(s, i, i + Len(k) - 1) = k

\* any(k in s for k in kws), kws a sequence
ContainsAny(s, kws) == \E j \in 1..Len(kws) : Contains(s, kws[j])

\* a `for` loop returning at its first hit: the first index whose flag is
\* TRUE in a sequence of flags, 0 when there is none
FirstIndex(flags) ==
    IF \E j \in 1..Len(flags) : flags[j]
    THEN CHOOSE j \in 1..Len(flags) :
            /\ flags[j]
            /\ \A h \in 1..(j - 1) : ~flags[h]
    ELSE 0

\* Python's None
None == "<None>"

\* Python truthiness of an Optional[str]: `if not x`
Falsy(x) == x = None \/ x = ""

\* FirstMax with ties going to the last item (a `>=` scan)
LastMax(keys) ==
    CHOOSE j \in 1..Len(keys) :
        /\ \A h \in 1..Len(keys) : keys[h] <= keys[j]
        /\ \A h \in (j + 1)..Len(keys) : keys[h] < keys[j]

\* min(iterable, key=...): the index of the first item whose key is minimal
FirstMin(keys) ==
    CHOOSE j \in 1..Len(keys) :
        /\ \A h \in 1..Len(keys) : keys[j] <= keys[h]
        /\ \A h \in 1..(j - 1) : keys[j] < keys[h]

\* max(iterable, key=...) over the sequence of the items' keys: the index of
\* the first item whose key is maximal
FirstMax(keys) ==
    CHOOSE j \in 1..Len(keys) :
        /\ \A h \in 1..Len(keys) : keys[h] <= keys[j]
        /\ \A h \in 1..(j - 1) : keys[h] < keys[j]

(***************************************************************************)
(* QueryGenerator._load_templates: an insertion-ordered dict, kept as the  *)
(* sequence of its items.                                                  *)
(***************************************************************************)
LoadTemplates ==
    << [name |-> "trend",
        patterns |-> <<"trend", "over time", "by month", "by day", "timeseries">>,
        template |-> "SELECT {time_column}, {agg_func}({value_column}) as value FROM {table} GROUP BY {time_column} ORDER BY {time_column};"],
       [name |-> "distribution",
        patterns |-> <<"distribution", "breakdown", "by category", "percentage", "proportion">>,
        template |-> "SELECT {category_column}, COUNT(*) as count FROM {table} GROUP BY {category_column} ORDER BY count DESC;"],
       [name |-> "top",
        patterns |-> <<"top", "highest", "most", "best">>,
        template |-> "SELECT {entity_column}, {agg_func}({value_column}) as value FROM {table} GROUP BY {entity_column} ORDER BY value DESC LIMIT {limit};"],
       [name |-> "comparison",
        patterns |-> <<"compare", "versus", "against", "difference">>,
        template |-> "SELECT {category_column}, {agg_func}({value_column}) as value FROM {table} GROUP BY {category_column} ORDER BY value DESC;"],
       [name |-> "aggregate",
        patterns |-> <<"total", "sum", "average", "count", "min", "max">>,
        template |-> "SELECT {agg_func}({value_column}) as value FROM {table} WHERE {where_clause};"] >>

(***************************************************************************)
(* Table resolution.                                                       *)
(***************************************************************************)
\* name.lower().replace('_', ' ')
SearchName(name) == ReplaceUnderscore(Lower(name))

\* tier 1 with `==` for `in`: only a query that is the table name mentions it
TableMentionedExact(query_lower, item) == query_lower = SearchName(item.name)

\* tier 1: `table_search in query.lower()`
TableMentioned(query_lower, item) == Contains(query_lower, SearchName(item.name))

\* tier 2: table_scores[table_name], the number of columns mentioned
TableScore(query_lower, item) ==
    Cardinality({c \in 1..Len(item.columns) :
                    Contains(query_lower, SearchName(item.columns[c].name))})

\* ResolutionTier with the column-mention tier tried before the name tier
ResolutionTierScoresFirst(mentioned, table_scores) ==
    IF \E j \in 1..Len(table_scores) : table_scores[j] > 0 THEN 2
    ELSE IF \E j \in 1..Len(mentioned) : mentioned[j] THEN 1
    ELSE IF Len(mentioned) > 0 THEN 3
    ELSE 0

\* the tier that decides: 1 name, 2 column mentions, 3 row_count, 0 none
ResolutionTier(mentioned, table_scores) ==
    IF \E j \in 1..Len(mentioned) : mentioned[j] THEN 1
    ELSE IF \E j \in 1..Len(table_scores) : table_scores[j] > 0 THEN 2
    ELSE IF Len(mentioned) > 0 THEN 3
    ELSE 0

\* IdentifyRelevantTable with `min` for `max` in the row_count tier
IdentifyRelevantTableFewestRows(query, sch) ==
    LET query_lower == Lower(query)
        mentioned == [j \in 1..Len(sch) |-> Contains(query_lower,
                                                ReplaceUnderscore(Lower(sch[j].name)))]
        table_scores == [j \in 1..Len(sch) |->
            Cardinality({c \in 1..Len(sch[j].columns) :
                Contains(query_lower,
                         ReplaceUnderscore(Lower(sch[j].columns[c].name)))})]
        rows == [j \in 1..Len(sch) |-> sch[j].row_count]
    IN  IF \E j \in 1..Len(sch) : mentioned[j] THEN sch[FirstIndex(mentioned)].name
        ELSE IF \E j \in 1..Len(sch) : table_scores[j] > 0
            THEN sch[FirstMax(table_scores)].name
        ELSE IF Len(sch) > 0 THEN sch[FirstMin(rows)].name
        ELSE None

\* _identify_relevant_table / identify_relevant_table
IdentifyRelevantTable(query, sch) ==
    LET query_lower == Lower(query)
        mentioned == [j \in 1..Len(sch) |-> TableMentioned(query_lower, sch[j])]
        table_scores == [j \in 1..Len(sch) |-> TableScore(query_lower, sch[j])]
        rows == [j \in 1..Len(sch) |-> sch[j].row_count]
        tier == ResolutionTier(mentioned, table_scores)
    IN  CASE tier = 1 -> sch[FirstIndex(mentioned)].name
          [] tier = 2 -> sch[FirstMax(table_scores)].name
          [] tier = 3 -> sch[FirstMax(rows)].name
          [] OTHER -> None

\* schema[table_name]
TableInfo(sch, table_name) ==
    sch[CHOOSE j \in 1..Len(sch) : sch[j].name = table_name]

(***************************************************************************)
(* Column classifiers.                                                     *)
(***************************************************************************)
time_keywords == <<"time", "date", "day", "month", "year", "created", "updated", "at">>
category_keywords == <<"type", "category", "name", "status", "level", "tier", "group", "department">>
value_keywords == <<"count", "amount", "value", "price", "cost", "quantity", "num", "total", "sum">>
entity_keywords == <<"user", "customer", "product", "employee", "account", "item", "client">>

\* the name of the first column whose flag is TRUE, None when there is none
FirstColumn(columns, flags) ==
    IF FirstIndex(flags) = 0 THEN None ELSE columns[FirstIndex(flags)].name

\* any(keyword in col_name for keyword in time_keywords)
IsTimeName(col_name) == ContainsAny(col_name, time_keywords)

\* [col['name'].lower() for col in columns]
LowerNames(cols) == [c \in 1..Len(cols) |-> Lower(cols[c].name)]

\* [col['type'].lower() for col in columns]
LowerTypes(cols) == [c \in 1..Len(cols) |-> Lower(cols[c].type)]

\* IdentifyTimeColumn keeping the last match instead of returning at the first
IdentifyTimeColumnLast(info) ==
    LET cols == info.columns
        hits == {c \in 1..Len(cols) : ContainsAny(Lower(cols[c].name), time_keywords)}
    IN  IF hits = {} THEN None
        ELSE cols[CHOOSE c \in hits : \A h \in hits : h <= c].name

\* _identify_time_column / identify_time_column
IdentifyTimeColumn(info) ==
    LET cols == info.columns
        col_name == LowerNames(cols)
    IN  FirstColumn(cols, [c \in 1..Len(cols) |-> IsTimeName(col_name[c])])

\* IdentifyCategoryColumn whose first loop keeps the last match instead of
\* returning at the first
IdentifyCategoryColumnLast(info) ==
    LET cols == info.columns
        col_name == LowerNames(cols)
        col_type == LowerTypes(cols)
        by_name == [c \in 1..Len(cols) |-> ContainsAny(col_name[c], category_keywords)]
        by_type == [c \in 1..Len(cols) |->
                        /\ Contains(col_type[c], "char") \/ Contains(col_type[c], "text")
                        /\ ~IsTimeName(col_name[c])]
        not_pk == [c \in 1..Len(cols) |-> ~cols[c].pk]
        last_by_name == CHOOSE c \in 1..Len(cols) :
                            by_name[c] /\ \A d \in (c + 1)..Len(cols) : ~by_name[d]
    IN  IF FirstIndex(by_name) # 0 THEN cols[last_by_name].name
        ELSE IF FirstIndex(by_type) # 0 THEN FirstColumn(cols, by_type)
        ELSE IF FirstIndex(not_pk) # 0 THEN FirstColumn(cols, not_pk)
        ELSE IF Len(cols) > 0 THEN cols[1].name
        ELSE None

\* IdentifyCategoryColumn with its first two loops in the other order
IdentifyCategoryColumnTypeFirst(info) ==
    LET cols == info.columns
        col_name == LowerNames(cols)
        col_type == LowerTypes(cols)
        by_name == [c \in 1..Len(cols) |-> ContainsAny(col_name[c], category_keywords)]
        by_type == [c \in 1..Len(cols) |->
                        /\ Contains(col_type[c], "char") \/ Contains(col_type[c], "text")
                        /\ ~IsTimeName(col_name[c])]
        not_pk == [c \in 1..Len(cols) |-> ~cols[c].pk]
    IN  IF FirstIndex(by_type) # 0 THEN FirstColumn(cols, by_type)
        ELSE IF FirstIndex(by_name) # 0 THEN FirstColumn(cols, by_name)
        ELSE IF FirstIndex(not_pk) # 0 THEN FirstColumn(cols, not_pk)
        ELSE IF Len(cols) > 0 THEN cols[1].name
        ELSE None

\* _identify_category_column / identify_category_column
IdentifyCategoryColumn(info) ==
    LET cols == info.columns
        col_name == LowerNames(cols)
        col_type == LowerTypes(cols)
        by_name == [c \in 1..Len(cols) |-> ContainsAny(col_name[c], category_keywords)]
        by_type == [c \in 1..Len(cols) |->
                        /\ Contains(col_type[c], "char") \/ Contains(col_type[c], "text")
                        /\ ~IsTimeName(col_name[c])]
        not_pk == [c \in 1..Len(cols) |-> ~cols[c].pk]
    IN  IF FirstIndex(by_name) # 0 THEN FirstColumn(cols, by_name)
        ELSE IF FirstIndex(by_type) # 0 THEN FirstColumn(cols, by_type)
        ELSE IF FirstIndex(not_pk) # 0 THEN FirstColumn(cols, not_pk)
        ELSE IF Len(cols) > 0 THEN cols[1].name
        ELSE None

\* IdentifyNumericColumn returning the lower-cased local col_name instead of
\* col['name']
IdentifyNumericColumnLowered(info) ==
    LET cols == info.columns
        by_name == [c \in 1..Len(cols) |->
                        ContainsAny(Lower(cols[c].name), value_keywords)]
        by_type == [c \in 1..Len(cols) |->
                        /\ ContainsAny(Lower(cols[c].type),
                                       <<"int", "float", "double", "real", "numeric">>)
                        /\ ~cols[c].pk]
    IN  IF FirstIndex(by_name) # 0 THEN Lower(cols[FirstIndex(by_name)].name)
        ELSE IF FirstIndex(by_type) # 0 THEN Lower(cols[FirstIndex(by_type)].name)
        ELSE "*"

\* _identify_numeric_column / identify_numeric_column
IdentifyNumericColumn(info) ==
    LET cols == info.columns
        col_name == LowerNames(cols)
        col_type == LowerTypes(cols)
        by_name == [c \in 1..Len(cols) |-> ContainsAny(col_name[c], value_keywords)]
        by_type == [c \in 1..Len(cols) |->
                        /\ ContainsAny(col_type[c],
                                       <<"int", "float", "double", "real", "numeric">>)
                        /\ ~cols[c].pk]
    IN  IF FirstIndex(by_name) # 0 THEN FirstColumn(cols, by_name)
        ELSE IF FirstIndex(by_type) # 0 THEN FirstColumn(cols, by_type)
        ELSE "*"

\* IdentifyEntityColumn that looks for a name/title/description column first
IdentifyEntityColumnNamedFirst(info, query) ==
    LET cols == info.columns
        col_name == LowerNames(cols)
        query_lower == Lower(query)
        nE == Len(entity_keywords)
        nC == Len(cols)
        in_query == [e \in 1..nE |-> Contains(query_lower, entity_keywords[e])]
        EntityOf(p) == ((p - 1) \div nC) + 1
        ColumnOf(p) == ((p - 1) % nC) + 1
        by_query == [p \in 1..(nE * nC) |->
                        /\ in_query[EntityOf(p)]
                        /\ Contains(col_name[ColumnOf(p)], entity_keywords[EntityOf(p)])]
        id_column == [p \in 1..(nE * nC) |->
                        Contains(col_name[ColumnOf(p)],
                                 entity_keywords[EntityOf(p)] \o "_id")]
        named == [c \in 1..nC |->
                        \/ Contains(col_name[c], "name")
                        \/ Contains(col_name[c], "title")
                        \/ Contains(col_name[c], "description")]
        is_pk == [c \in 1..nC |-> cols[c].pk]
    IN  IF FirstIndex(named) # 0 THEN FirstColumn(cols, named)
        ELSE IF FirstIndex(by_query) # 0 THEN cols[ColumnOf(FirstIndex(by_query))].name
        ELSE IF FirstIndex(id_column) # 0 THEN cols[ColumnOf(FirstIndex(id_column))].name
        ELSE IF FirstIndex(is_pk) # 0 THEN FirstColumn(cols, is_pk)
        ELSE IF nC > 0 THEN cols[1].name
        ELSE None

\* _identify_entity_column
IdentifyEntityColumn(info, query) ==
    LET cols == info.columns
        col_name == LowerNames(cols)
        query_lower == Lower(query)
        nE == Len(entity_keywords)
        nC == Len(cols)
        \* query_entities, as flags over entity_keywords
        in_query == [e \in 1..nE |-> Contains(query_lower, entity_keywords[e])]
        \* the nested loops `for entity ...: for col ...:` flattened in visiting
        \* order: position (e - 1) * nC + c is (entity e, column c)
        EntityOf(p) == ((p - 1) \div nC) + 1
        ColumnOf(p) == ((p - 1) % nC) + 1
        by_query == [p \in 1..(nE * nC) |->
                        /\ in_query[EntityOf(p)]
                        /\ Contains(col_name[ColumnOf(p)], entity_keywords[EntityOf(p)])]
        id_column == [p \in 1..(nE * nC) |->
                        Contains(col_name[ColumnOf(p)],
                                 entity_keywords[EntityOf(p)] \o "_id")]
        named == [c \in 1..nC |->
                        \/ Contains(col_name[c], "name")
                        \/ Contains(col_name[c], "title")
                        \/ Contains(col_name[c], "description")]
        is_pk == [c \in 1..nC |-> cols[c].pk]
    IN  IF FirstIndex(by_query) # 0 THEN cols[ColumnOf(FirstIndex(by_query))].name
        ELSE IF FirstIndex(id_column) # 0 THEN cols[ColumnOf(FirstIndex(id_column))].name
        ELSE IF FirstIndex(named) # 0 THEN FirstColumn(cols, named)
        ELSE IF FirstIndex(is_pk) # 0 THEN FirstColumn(cols, is_pk)
        ELSE IF nC > 0 THEN cols[1].name
        ELSE None

\* _identify_aggregation_function whose sum branch tests 'sum' alone
IdentifyAggregationFunctionNoTotal(query) ==
    LET q == Lower(query)
    IN  IF Contains(q, "average") \/ Contains(q, "avg") THEN "AVG"
        ELSE IF Contains(q, "sum") THEN "SUM"
        ELSE IF Contains(q, "minimum") \/ Contains(q, "min") THEN "MIN"
        ELSE IF Contains(q, "maximum") \/ Contains(q, "max") THEN "MAX"
        ELSE "COUNT"

\* _identify_aggregation_function with the sum branch tested before the average one
IdentifyAggregationFunctionSumFirst(query) ==
    LET q == Lower(query)
    IN  IF Contains(q, "sum") \/ Contains(q, "total") THEN "SUM"
        ELSE IF Contains(q, "average") \/ Contains(q, "avg") THEN "AVG"
        ELSE IF Contains(q, "minimum") \/ Contains(q, "min") THEN "MIN"
        ELSE IF Contains(q, "maximum") \/ Contains(q, "max") THEN "MAX"
        ELSE "COUNT"

\* _identify_aggregation_function / identify_aggregation_function
IdentifyAggregationFunction(query) ==
    LET q == Lower(query)
    IN  IF Contains(q, "average") \/ Contains(q, "avg") THEN "AVG"
        ELSE IF Contains(q, "sum") \/ Contains(q, "total") THEN "SUM"
        ELSE IF Contains(q, "minimum") \/ Contains(q, "min") THEN "MIN"
        ELSE IF Contains(q, "maximum") \/ Contains(q, "max") THEN "MAX"
        ELSE IF Contains(q, "count") \/ Contains(q, "how many") \/ Contains(q, "number of")
            THEN "COUNT"
        ELSE "COUNT"

(***************************************************************************)
(* _extract_limit: re.search of                                            *)
(*   (?:top|first|highest|best)\s+(\d+)|(\d+)\s+(?:top|first|highest|best) *)
(***************************************************************************)
limit_words == <<"top", "first", "highest", "best">>
IsDigit(c) == c \in {"0", "1", "2", "3", "4", "5", "6", "7", "8", "9"}
IsSpace(c) == c \in {" ", "\t", "\n", "\r", "\f"}
CharAt(s, i) == SubSeq(s, i, i)

\* the length of the run of digits (\d+, greedy) from position i
RECURSIVE DigitRun(_, _)
DigitRun(s, i) ==
    IF i <= Len(s) /\ IsDigit(CharAt(s, i)) THEN 1 + DigitRun(s, i + 1) ELSE 0

\* the length of the run of whitespace (\s+, greedy) from position i
RECURSIVE SpaceRun(_, _)
SpaceRun(s, i) ==
    IF i <= Len(s) /\ IsSpace(CharAt(s, i)) THEN 1 + SpaceRun(s, i + 1) ELSE 0

DigitValue(c) ==
    CASE c = "0" -> 0 [] c = "1" -> 1 [] c = "2" -> 2 [] c = "3" -> 3 [] c = "4" -> 4
      [] c = "5" -> 5 [] c = "6" -> 6 [] c = "7" -> 7 [] c = "8" -> 8 [] c = "9" -> 9

\* int(digits)
RECURSIVE ParseInt(_)
ParseInt(d) ==
    IF Len(d) = 0 THEN 0
    ELSE 10 * ParseInt(SubSeq(d, 1, Len(d) - 1)) + DigitValue(CharAt(d, Len(d)))

\* does s hold word w at position i
WordAt(s, i, w) == i + Len(w) - 1 <= Len(s) /\ SubSeq(s, i, i + Len(w) - 1) = w

\* first alternative at position i: <word>\s+(\d+); the captured digits or None
MatchWordNumber(s, i) ==
    LET hit == [k \in 1..Len(limit_words) |->
                    /\ WordAt(s, i, limit_words[k])
                    /\ SpaceRun(s, i + Len(limit_words[k])) > 0
                    /\ DigitRun(s, i + Len(limit_words[k])
                                     + SpaceRun(s, i + Len(limit_words[k]))) > 0]
        w == limit_words[FirstIndex(hit)]
        d == i + Len(w) + SpaceRun(s, i + Len(w))
    IN  IF FirstIndex(hit) = 0 THEN None
        ELSE SubSeq(s, d, d + DigitRun(s, d) - 1)

\* a pattern without its second alternative: only <word>\s+(\d+) is searched
MatchNumberWordNever(s, i) == None

\* second alternative at position i: (\d+)\s+<word>; the captured digits or None
MatchNumberWord(s, i) ==
    LET n == DigitRun(s, i)
        sp == SpaceRun(s, i + n)
        hit == [k \in 1..Len(limit_words) |-> WordAt(s, i + n + sp, limit_words[k])]
    IN  IF n > 0 /\ sp > 0 /\ FirstIndex(hit) # 0
        THEN SubSeq(s, i, i + n - 1)
        ELSE None

\* an Optional[int]: <<>> is None, <<n>> is the number n
NoLimit == <<>>

\* _extract_limit / extract_limit
ExtractLimit(query) ==
    LET q == Lower(query)
        MatchAt(i) == IF MatchWordNumber(q, i) # None THEN MatchWordNumber(q, i)
                      ELSE MatchNumberWord(q, i)
        Starts == {i \in 1..Len(q) : MatchAt(i) # None}
        first == CHOOSE i \in Starts : \A h \in Starts : i <= h
    IN  IF Starts # {} THEN <<ParseInt(MatchAt(first))>>
        ELSE IF ContainsAny(q, <<"top", "highest", "best">>) THEN <<10>>
        ELSE NoLimit

\* `limit or 10`
LimitOr10(limit) == IF limit = NoLimit \/ limit = <<0>> THEN 10 ELSE limit[1]

(***************************************************************************)
(* Outcomes of a call: a returned dict, a returned None, or an exception.  *)
(* The SQL f-string is kept as the sequence of its parts, each literal     *)
(* text or an interpolated value tagged with what was interpolated; Render *)
(* gives the text.                                                         *)
(***************************************************************************)
Lit(t) == [kind |-> "lit", text |-> t]
Tbl(t) == [kind |-> "table", text |-> t]
Col(t) == [kind |-> "column", text |-> t]
Agg(t) == [kind |-> "agg", text |-> t]
Lim(n) == [kind |-> "limit", text |-> ToString(n)]

RECURSIVE Render(_)
Render(parts) ==
    IF Len(parts) = 0 THEN "" ELSE Head(parts).text \o Render(Tail(parts))

\* {'success': False, 'message': msg}
Failure(msg) == [kind |-> "dict", success |-> FALSE, message |-> msg]

\* a function body that ends without a return statement
ReturnsNone == [kind |-> "None"]

\* an exception leaving the call
Raises(exc) == [kind |-> "raise", exception |-> exc]

NoTableMessage == "Could not identify a relevant table for this query."

\* the indentation of the SQL f-strings in the two files
ClassIndent == "        "
ModuleIndent == "    "

(***************************************************************************)
(* The builders.                                                           *)
(***************************************************************************)
\* time_format tested against the time_keywords of _identify_time_column
TimeFormatAnyKeyword(time_column) ==
    IF ContainsAny(Lower(time_column), time_keywords)
    THEN <<Lit("strftime('%Y-%m', "), Col(time_column), Lit(")")>>
    ELSE <<Col(time_column)>>

\* time_format: the year-month bucket for ['time', 'date', '_at'] names
TimeFormat(time_column) ==
    IF ContainsAny(Lower(time_column), <<"time", "date", "_at">>)
    THEN <<Lit("strftime('%Y-%m', "), Col(time_column), Lit(")")>>
    ELSE <<Col(time_column)>>

TrendQuery(query, sch, ind) ==
    LET table_name == IdentifyRelevantTable(query, sch)
        table_info == TableInfo(sch, table_name)
        time_column == IdentifyTimeColumn(table_info)
        value_column == IdentifyNumericColumn(table_info)
        agg_func == IdentifyAggregationFunction(query)
    IN  IF Falsy(table_name) THEN Failure(NoTableMessage)
        ELSE IF Falsy(time_column)
            THEN Failure("Could not identify a time-based column for trend analysis.")
        ELSE [kind |-> "dict",
              success |-> TRUE,
              query |-> <<Lit("\n" \o ind \o "SELECT ")>> \o TimeFormat(time_column)
                        \o <<Lit(" as time_period, "), Agg(agg_func), Lit("("),
                             Col(value_column), Lit(") as value \n" \o ind \o "FROM "),
                             Tbl(table_name), Lit(" \n" \o ind \o "WHERE "),
                             Col(time_column),
                             Lit(" IS NOT NULL\n" \o ind \o "GROUP BY time_period \n"
                                 \o ind \o "ORDER BY time_period;\n" \o ind)>>,
              visualization_type |-> "line",
              explanation |-> "Analyzing " \o Lower(agg_func) \o " of " \o value_column
                              \o " over time from " \o table_name,
              table |-> table_name,
              x_axis |-> "time_period",
              y_axis |-> "value"]

DistributionQuery(query, sch, ind) ==
    LET table_name == IdentifyRelevantTable(query, sch)
        table_info == TableInfo(sch, table_name)
        category_column == IdentifyCategoryColumn(table_info)
    IN  IF Falsy(table_name) THEN Failure(NoTableMessage)
        ELSE IF Falsy(category_column)
            THEN Failure("Could not identify a categorical column for distribution analysis.")
        ELSE [kind |-> "dict",
              success |-> TRUE,
              query |-> <<Lit("\n" \o ind \o "SELECT "), Col(category_column),
                          Lit(", COUNT(*) as count \n" \o ind \o "FROM "),
                          Tbl(table_name), Lit(" \n" \o ind \o "WHERE "),
                          Col(category_column),
                          Lit(" IS NOT NULL\n" \o ind \o "GROUP BY "),
                          Col(category_column),
                          Lit(" \n" \o ind \o "ORDER BY count DESC;\n" \o ind)>>,
              visualization_type |->
                  IF Contains(Lower(query), "percentage") THEN "pie" ELSE "bar",
              explanation |-> "Analyzing distribution of " \o category_column
                              \o " in " \o table_name,
              table |-> table_name,
              x_axis |-> category_column,
              y_axis |-> "count"]

\* QueryGenerator._generate_trend_query
_generate_trend_query(query, sch) == TrendQuery(query, sch, ClassIndent)

\* a _generate_distribution_query whose visualization_type is always 'bar'
DistributionAlwaysBar(query, sch) ==
    LET r == DistributionQuery(query, sch, ClassIndent)
    IN  IF r.success THEN [r EXCEPT !.visualization_type = "bar"] ELSE r

\* QueryGenerator._generate_distribution_query
_generate_distribution_query(query, sch) == DistributionQuery(query, sch, ClassIndent)

\* QueryGenerator._generate_top_query
_generate_top_query(query, sch) ==
    LET ind == ClassIndent
        table_name == IdentifyRelevantTable(query, sch)
        table_info == TableInfo(sch, table_name)
        entity_column == IdentifyEntityColumn(table_info, query)
        value_column == IdentifyNumericColumn(table_info)
        agg_func == IdentifyAggregationFunction(query)
        limit == ExtractLimit(query)
    IN  IF Falsy(table_name) THEN Failure(NoTableMessage)
        ELSE IF Falsy(entity_column)
            THEN Failure("Could not identify an entity column for this query.")
        ELSE [kind |-> "dict",
              success |-> TRUE,
              query |-> <<Lit("\n" \o ind \o "SELECT "), Col(entity_column), Lit(", "),
                          Agg(agg_func), Lit("("), Col(value_column),
                          Lit(") as value \n" \o ind \o "FROM "), Tbl(table_name),
                          Lit(" \n" \o ind \o "GROUP BY "), Col(entity_column),
                          Lit(" \n" \o ind \o "ORDER BY value DESC\n" \o ind \o "LIMIT "),
                          Lim(LimitOr10(limit)), Lit(";\n" \o ind)>>,
              visualization_type |-> "bar",
              explanation |-> "Finding top " \o ToString(LimitOr10(limit)) \o " "
                              \o entity_column \o " by " \o Lower(agg_func) \o " of "
                              \o value_column \o " in " \o table_name,
              table |-> table_name,
              x_axis |-> entity_column,
              y_axis |-> "value"]

\* QueryGenerator._generate_comparison_query
_generate_comparison_query(query, sch) ==
    LET ind == ClassIndent
        table_name == IdentifyRelevantTable(query, sch)
        table_info == TableInfo(sch, table_name)
        category_column == IdentifyCategoryColumn(table_info)
        value_column == IdentifyNumericColumn(table_info)
        agg_func == IdentifyAggregationFunction(query)
    IN  IF Falsy(table_name) THEN Failure(NoTableMessage)
        ELSE IF Falsy(category_column)
            THEN Failure("Could not identify a categorical column for comparison.")
        ELSE [kind |-> "dict",
              success |-> TRUE,
              query |-> <<Lit("\n" \o ind \o "SELECT "), Col(category_column), Lit(", "),
                          Agg(agg_func), Lit("("), Col(value_column),
                          Lit(") as value \n" \o ind \o "FROM "), Tbl(table_name),
                          Lit(" \n" \o ind \o "GROUP BY "), Col(category_column),
                          Lit(" \n" \o ind \o "ORDER BY value DESC;\n" \o ind)>>,
              visualization_type |-> "bar",
              explanation |-> "Comparing " \o category_column \o " by "
                              \o Lower(agg_func) \o " of " \o value_column
                              \o " in " \o table_name,
              table |-> table_name,
              x_axis |-> category_column,
              y_axis |-> "value"]

\* _generate_aggregate_query without its no-table early return
AggregateWithoutTableCheck(query, sch) == ReturnsNone

\* QueryGenerator._generate_aggregate_query: the body ends after the
\* no-table return, so a resolved table falls off the end of the function
_generate_aggregate_query(query, sch) ==
    LET table_name == IdentifyRelevantTable(query, sch)
    IN  IF Falsy(table_name) THEN Failure(NoTableMessage)
        ELSE ReturnsNone

\* self._generate_generic_query: QueryGenerator defines no such method, so
\* the attribute lookup raises before anything is called
_generate_generic_query(query, sch) == Raises("AttributeError")

\* query_utils.generate_trend_query
generate_trend_query(query, sch) == TrendQuery(query, sch, ModuleIndent)

\* query_utils.generate_distribution_query
generate_distribution_query(query, sch) == DistributionQuery(query, sch, ModuleIndent)

\* query_utils.generate_top_query: the body is `pass`
generate_top_query(query, sch) == ReturnsNone

\* query_utils.generate_comparison_query: the body is `pass`
generate_comparison_query(query, sch) == ReturnsNone

\* query_utils.generate_aggregate_query: the body is `pass`
generate_aggregate_query(query, sch) == ReturnsNone

\* query_utils.generate_generic_query: the body is `pass`
generate_generic_query(query, sch) == ReturnsNone

(***************************************************************************)
(* The entry points.                                                       *)
(***************************************************************************)
\* QueryType without the loop's `break`: the last matching template wins
QueryTypeLastMatch(templates, text) ==
    LET hits == {t \in 1..Len(templates) :
                    ContainsAny(Lower(text), templates[t].patterns)}
    IN  IF hits = {} THEN None
        ELSE templates[CHOOSE t \in hits : \A h \in hits : h <= t].name

\* generate_sql's loop over self.query_templates.items(): the name of the
\* first template one of whose patterns is in the lower-cased text, or None
QueryType(templates, text) ==
    LET query_lower == Lower(text)
        matches == [t \in 1..Len(templates) |->
                        ContainsAny(query_lower, templates[t].patterns)]
    IN  IF FirstIndex(matches) = 0 THEN None
        ELSE templates[FirstIndex(matches)].name

\* the builder generate_sql's if/elif chain calls
GenerateSqlHandler(templates, text) ==
    LET query_type == QueryType(templates, text)
    IN  IF query_type = None THEN "generic"
        ELSE IF query_type = "trend" THEN "trend"
        ELSE IF query_type = "distribution" THEN "distribution"
        ELSE IF query_type = "top" THEN "top"
        ELSE IF query_type = "comparison" THEN "comparison"
        ELSE IF query_type = "aggregate" THEN "aggregate"
        ELSE "generic"

\* QueryGenerator.generate_sql
generate_sql(templates, text, sch) ==
    LET h == GenerateSqlHandler(templates, text)
    IN  CASE h = "trend" -> _generate_trend_query(text, sch)
          [] h = "distribution" -> _generate_distribution_query(text, sch)
          [] h = "top" -> _generate_top_query(text, sch)
          [] h = "comparison" -> _generate_comparison_query(text, sch)
          [] h = "aggregate" -> _generate_aggregate_query(text, sch)
          [] OTHER -> _generate_generic_query(text, sch)

\* a query core whose classifiers consume the column lists they are given
SchemaAfterCallConsumed(sch) ==
    [j \in 1..Len(sch) |-> [sch[j] EXCEPT !.columns = <<>>]]

\* what a call leaves in the schema dict it was given: generate_sql, the
\* resolver and the classifiers only read it
SchemaAfterCall(sch) == sch

\* a generate_sql that moves the matched template to the front of the dict
TemplatesMoveToFront(templates, text) ==
    LET hits == {t \in 1..Len(templates) :
                    ContainsAny(Lower(text), templates[t].patterns)}
        first == CHOOSE t \in hits : \A h \in hits : t <= h
    IN  IF hits = {} THEN templates
        ELSE <<templates[first]>>
             \o SubSeq(templates, 1, first - 1)
             \o SubSeq(templates, first + 1, Len(templates))

\* what a generate_sql call leaves in self.query_templates: it only reads it
TemplatesAfterCall(templates, text) == templates

\* the builder nlp_to_sql's if/elif chain calls
NlpToSqlHandler(query) ==
    LET query_lower == Lower(query)
        is_trend_query == ContainsAny(query_lower,
            <<"trend", "over time", "by month", "by day", "timeseries">>)
        is_distribution_query == ContainsAny(query_lower,
            <<"distribution", "breakdown", "by category", "percentage", "proportion">>)
        is_top_query == ContainsAny(query_lower, <<"top", "highest", "most", "best">>)
        is_comparison_query == ContainsAny(query_lower,
            <<"compare", "versus", "against", "difference">>)
        is_aggregate_query == ContainsAny(query_lower,
            <<"total", "sum", "average", "count", "min", "max">>)
    IN  IF is_trend_query THEN "trend"
        ELSE IF is_distribution_query THEN "distribution"
        ELSE IF is_top_query THEN "top"
        ELSE IF is_comparison_query THEN "comparison"
        ELSE IF is_aggregate_query THEN "aggregate"
        ELSE "generic"

\* query_utils.nlp_to_sql
nlp_to_sql(query, sch) ==
    LET h == NlpToSqlHandler(query)
    IN  CASE h = "trend" -> generate_trend_query(query, sch)
          [] h = "distribution" -> generate_distribution_query(query, sch)
          [] h = "top" -> generate_top_query(query, sch)
          [] h = "comparison" -> generate_comparison_query(query, sch)
          [] h = "aggregate" -> generate_aggregate_query(query, sch)
          [] OTHER -> generate_generic_query(query, sch)

(***************************************************************************)
(* Data_Agent.py: the values of result rows.  A value carries its Python   *)
(* type and, for a str, its text; a row is a dict in insertion order, kept *)
(* as a sequence of (name, value) entries.                                 *)
(***************************************************************************)
IntValue(n) == [type |-> "int", text |-> ToString(n)]
FloatValue(digits) == [type |-> "float", text |-> digits]
StrValue(s) == [type |-> "str", text |-> s]
BoolValue(b) == [type |-> "bool", text |-> IF b THEN "True" ELSE "False"]
NoneValue == [type |-> "NoneType", text |-> "None"]
Entry(n, v) == [name |-> n, value |-> v]

\* list(row.keys())
Keys(row) == [c \in 1..Len(row) |-> row[c].name]

\* s[i], and "" past the end of s
CharOrEnd(s, i) == IF i >= 1 /\ i <= Len(s) THEN SubSeq(s, i, i) ELSE ""

RECURSIVE Join(_, _)
\* sep.join(items)
Join(items, sep) ==
    IF Len(items) = 0 THEN ""
    ELSE IF Len(items) = 1 THEN items[1]
    ELSE items[1] \o sep \o Join(Tail(items), sep)

RECURSIVE Flatten(_)
\* the items of a list of lists, in order
Flatten(lists) ==
    IF Len(lists) = 0 THEN <<>> ELSE lists[1] \o Flatten(Tail(lists))

\* [x for x in items if keep[x]], items a sequence, keep a sequence of flags
RECURSIVE Filter(_, _)
Filter(items, keep) ==
    IF Len(items) = 0 THEN <<>>
    ELSE (IF keep[1] THEN <<items[1]>> ELSE <<>>) \o Filter(Tail(items), Tail(keep))

\* config.get(key): None for a key the dict does not have
Get(d, key) == IF key \in DOMAIN d THEN d[key] ELSE None

(***************************************************************************)
(* VisualizationEngine.                                                    *)
(***************************************************************************)
\* re.match of a pattern of \d and literal characters: shape holds "d" for
\* \d, and the match is anchored at the start of s only
MatchesShape(s, shape) ==
    /\ Len(s) >= Len(shape)
    /\ \A k \in 1..Len(shape) :
        IF CharAt(shape, k) = "d" THEN IsDigit(CharAt(s, k))
        ELSE CharAt(s, k) = CharAt(shape, k)

date_patterns == <<"dddd-dd-dd", "dd/dd/dddd", "dd-dd-dddd">>

\* VisualizationEngine._is_date_string
_is_date_string(value) ==
    IF value.type # "str" THEN FALSE
    ELSE \E p \in 1..Len(date_patterns) : MatchesShape(value.text, date_patterns[p])

RECURSIVE DigitPartEnd(_, _)
\* the index after the digits that start at s[i], single underscores between
\* digits allowed; i when s[i] is no digit
DigitPartEnd(s, i) ==
    IF ~IsDigit(CharOrEnd(s, i)) THEN i
    ELSE IF IsDigit(CharOrEnd(s, i + 1)) THEN DigitPartEnd(s, i + 1)
    ELSE IF CharOrEnd(s, i + 1) = "_" /\ IsDigit(CharOrEnd(s, i + 2))
        THEN DigitPartEnd(s, i + 2)
    ELSE i + 1

RECURSIVE Strip(_)
\* s.strip()
Strip(s) ==
    IF Len(s) = 0 THEN s
    ELSE IF IsSpace(CharAt(s, 1)) THEN Strip(SubSeq(s, 2, Len(s)))
    ELSE IF IsSpace(CharAt(s, Len(s))) THEN Strip(SubSeq(s, 1, Len(s) - 1))
    ELSE s

\* does float(s) accept the unsigned text u: digits, an optional fraction
\* and an optional exponent
IsDecimalFloat(u) ==
    LET int_end == DigitPartEnd(u, 1)
        has_point == CharOrEnd(u, int_end) = "."
        frac_end == IF has_point THEN DigitPartEnd(u, int_end + 1) ELSE int_end
        has_digits == int_end > 1 \/ (has_point /\ frac_end > int_end + 1)
        has_exp == CharOrEnd(u, frac_end) \in {"e", "E"}
        exp_start == IF CharOrEnd(u, frac_end + 1) \in {"+", "-"}
                     THEN frac_end + 2 ELSE frac_end + 1
        exp_end == DigitPartEnd(u, exp_start)
    IN  /\ has_digits
        /\ IF has_exp THEN exp_end > exp_start /\ exp_end = Len(u) + 1
           ELSE frac_end = Len(u) + 1

\* VisualizationEngine._is_numeric: float(value) raises no ValueError
_is_numeric(text) ==
    LET t == Strip(text)
        u == IF CharOrEnd(t, 1) \in {"+", "-"} THEN SubSeq(t, 2, Len(t)) ELSE t
    IN  \/ Lower(u) \in {"inf", "infinity", "nan"}
        \/ IsDecimalFloat(u)

\* _infer_column_type without the test of the value for a date string
InferColumnTypeByNameOnly(value, column_name) ==
    LET column_name_lower == Lower(column_name)
    IN  IF \/ Contains(column_name_lower, "date")
           \/ Contains(column_name_lower, "time")
           \/ Contains(column_name_lower, "year")
        THEN "date"
        ELSE IF \/ value.type \in {"int", "float", "bool"}
                \/ value.type = "str" /\ _is_numeric(value.text)
        THEN "numeric"
        ELSE "categorical"

\* VisualizationEngine._infer_column_type; isinstance(value, (int, float))
\* holds for a bool as well
_infer_column_type(value, column_name) ==
    LET column_name_lower == Lower(column_name)
    IN  IF \/ Contains(column_name_lower, "date")
           \/ Contains(column_name_lower, "time")
           \/ Contains(column_name_lower, "year")
           \/ _is_date_string(value)
        THEN "date"
        ELSE IF \/ value.type \in {"int", "float", "bool"}
                \/ value.type = "str" /\ _is_numeric(value.text)
        THEN "numeric"
        ELSE "categorical"

\* VisualizationEngine._analyze_data_structure
_analyze_data_structure(rows) ==
    LET first_row == IF Len(rows) > 0 THEN rows[1] ELSE <<>>
        column_type == [c \in 1..Len(first_row) |->
                            _infer_column_type(first_row[c].value, first_row[c].name)]
        OfType(t) == Filter(Keys(first_row),
                            [c \in 1..Len(first_row) |-> column_type[c] = t])
        Other == Filter(Keys(first_row),
                        [c \in 1..Len(first_row) |->
                            column_type[c] \notin {"date", "numeric"}])
    IN  [column_count |-> Len(first_row),
         row_count |-> Len(rows),
         columns |-> [c \in 1..Len(first_row) |->
                        [name |-> first_row[c].name, type |-> column_type[c]]],
         has_date_column |-> OfType("date") # <<>>,
         has_numeric_column |-> OfType("numeric") # <<>>,
         has_categorical_column |-> Other # <<>>,
         date_columns |-> OfType("date"),
         numeric_columns |-> OfType("numeric"),
         categorical_columns |-> Other]

\* columns[0] if columns else None
FirstOrNone(columns) == IF columns # <<>> THEN columns[1] ELSE None

\* VisualizationEngine._generate_line_chart_config
_generate_line_chart_config(rows, data_structure) ==
    [x_axis |-> FirstOrNone(data_structure.date_columns),
     y_axis |-> FirstOrNone(data_structure.numeric_columns),
     data |-> rows]

\* VisualizationEngine._generate_bar_chart_config
_generate_bar_chart_config(rows, data_structure) ==
    [x_axis |-> FirstOrNone(data_structure.categorical_columns),
     y_axis |-> FirstOrNone(data_structure.numeric_columns),
     data |-> rows]

\* VisualizationEngine._generate_pie_chart_config
_generate_pie_chart_config(rows, data_structure) ==
    [label_column |-> FirstOrNone(data_structure.categorical_columns),
     value_column |-> FirstOrNone(data_structure.numeric_columns),
     data |-> rows]

\* VisualizationEngine._generate_table_config
_generate_table_config(rows) ==
    IF Len(rows) = 0 THEN [columns |-> <<>>, data |-> <<>>]
    ELSE [columns |-> Keys(rows[1]), data |-> rows]

\* a recommendation: the dict {'type': ..., 'config': ...}
Recommendation(t, config) == [kind |-> "dict", type |-> t, config |-> config]

\* VisualizationEngine.recommend_visualization
recommend_visualization(rows, query) ==
    LET data_structure == _analyze_data_structure(rows)
        query_lower == Lower(query)
    IN  IF Len(rows) = 0 THEN ReturnsNone
        ELSE IF /\ data_structure.has_date_column
                /\ data_structure.has_numeric_column
                /\ Contains(query_lower, "over time") \/ Contains(query_lower, "trend")
        THEN Recommendation("line-chart", _generate_line_chart_config(rows, data_structure))
        ELSE IF /\ data_structure.has_categorical_column
                /\ data_structure.has_numeric_column
                /\ Contains(query_lower, "compare") \/ Contains(query_lower, "by category")
        THEN Recommendation("bar-chart", _generate_bar_chart_config(rows, data_structure))
        ELSE IF /\ data_structure.has_categorical_column
                /\ data_structure.has_numeric_column
                /\ Contains(query_lower, "distribution") \/ Contains(query_lower, "percentage")
        THEN Recommendation("pie-chart", _generate_pie_chart_config(rows, data_structure))
        ELSE Recommendation("table", _generate_table_config(rows))

(***************************************************************************)
(* SchemaManager.  A dict with str keys is a sequence of (name, value)     *)
(* entries in insertion order.                                             *)
(***************************************************************************)
\* d[key] = value: a present key keeps its place, a new key goes last
DictSet(d, key, value) ==
    IF \E k \in 1..Len(d) : d[k].name = key
    THEN [k \in 1..Len(d) |-> IF d[k].name = key THEN Entry(key, value) ELSE d[k]]
    ELSE Append(d, Entry(key, value))

AgentColumn(n, t, k) == [name |-> n, type |-> t, primary_key |-> k]

\* SchemaManager.discover_tables
discover_tables(data_source) ==
    IF data_source.name = "sales"
    THEN << [name |-> "sales",
             columns |-> <<AgentColumn("id", "INTEGER", TRUE),
                           AgentColumn("date", "DATE", FALSE),
                           AgentColumn("amount", "DECIMAL", FALSE),
                           AgentColumn("product_id", "INTEGER", FALSE)>>],
            [name |-> "products",
             columns |-> <<AgentColumn("id", "INTEGER", TRUE),
                           AgentColumn("name", "TEXT", FALSE),
                           AgentColumn("category", "TEXT", FALSE),
                           AgentColumn("price", "DECIMAL", FALSE)>>] >>
    ELSE IF data_source.name = "customers"
    THEN << [name |-> "customers",
             columns |-> <<AgentColumn("id", "INTEGER", TRUE),
                           AgentColumn("name", "TEXT", FALSE),
                           AgentColumn("email", "TEXT", FALSE),
                           AgentColumn("signup_date", "DATE", FALSE)>>],
            [name |-> "orders",
             columns |-> <<AgentColumn("id", "INTEGER", TRUE),
                           AgentColumn("customer_id", "INTEGER", FALSE),
                           AgentColumn("order_date", "DATE", FALSE),
                           AgentColumn("total", "DECIMAL", FALSE)>>] >>
    ELSE <<>>

\* SchemaManager.discover_relationships
discover_relationships(data_source) ==
    IF data_source.name = "sales"
    THEN << [table |-> "sales", column |-> "product_id",
             references_table |-> "products", references_column |-> "id"] >>
    ELSE IF data_source.name = "customers"
    THEN << [table |-> "orders", column |-> "customer_id",
             references_table |-> "customers", references_column |-> "id"] >>
    ELSE <<>>

\* SchemaManager.introspect_data_source
introspect_data_source(data_source) ==
    [tables |-> discover_tables(data_source),
     relationships |-> discover_relationships(data_source)]

RECURSIVE load_schemas(_, _)
\* SchemaManager.load_schemas: self.schemas after the loop over data_sources
load_schemas(loaded, data_sources) ==
    IF Len(data_sources) = 0 THEN loaded
    ELSE load_schemas(DictSet(loaded, data_sources[1].name,
                              introspect_data_source(data_sources[1])),
                      Tail(data_sources))

(***************************************************************************)
(* QueryTransformer.                                                       *)
(***************************************************************************)
\* QueryTransformer._extract_entities
_extract_entities(query, loaded) ==
    LET query_lower == Lower(query)
        all_tables == Flatten([s \in 1..Len(loaded) |-> loaded[s].value.tables])
        mentioned == Filter(all_tables,
                            [t \in 1..Len(all_tables) |->
                                Contains(query_lower, Lower(all_tables[t].name))])
        ColumnsOf(table) ==
            LET hit == Filter(table.columns,
                              [c \in 1..Len(table.columns) |->
                                  Contains(query_lower, Lower(table.columns[c].name))])
            IN  [c \in 1..Len(hit) |-> [table |-> table.name, column |-> hit[c].name]]
        tables == [t \in 1..Len(mentioned) |-> mentioned[t].name]
        columns == Flatten([t \in 1..Len(mentioned) |-> ColumnsOf(mentioned[t])])
    IN  [tables |-> tables,
         columns |-> IF columns = <<>> /\ tables # <<>>
                     THEN <<[table |-> tables[1], column |-> "*"]>>
                     ELSE columns,
         conditions |-> <<>>]

\* QueryTransformer._determine_query_intent
_determine_query_intent(query) ==
    LET query_lower == Lower(query)
    IN  IF Contains(query_lower, "how many") \/ Contains(query_lower, "count")
        THEN "COUNT"
        ELSE IF Contains(query_lower, "sum") \/ Contains(query_lower, "total")
        THEN "SUM"
        ELSE IF \/ Contains(query_lower, "average") \/ Contains(query_lower, "avg")
                \/ Contains(query_lower, "mean")
        THEN "AVG"
        ELSE "SELECT"

\* QueryTransformer._build_where_clause
_build_where_clause(conditions, ctx) ==
    IF ctx.filters # <<>> THEN ctx.filters[1]
    ELSE IF conditions # <<>> THEN Join(conditions, " AND ")
    ELSE ""

\* QueryTransformer._build_sql_query
_build_sql_query(intent, entities, ctx) ==
    LET tables == IF entities.tables = <<>> /\ ctx.current_tables # <<>>
                  THEN <<ctx.current_tables[1]>>
                  ELSE entities.tables
        table == tables[1]
        named == entities.columns # <<>> /\ entities.columns[1].column # "*"
        Over(func) ==
            IF named
            THEN "SELECT " \o func \o "(" \o entities.columns[1].column \o ") FROM " \o table
            ELSE "SELECT " \o func \o "(*) FROM " \o table
        columns == Join([c \in 1..Len(entities.columns) |->
                            IF entities.columns[c].column # "*"
                            THEN entities.columns[c].table \o "."
                                    \o entities.columns[c].column
                            ELSE "*"], ", ")
        sql == CASE intent = "COUNT" -> Over("COUNT")
                 [] intent = "SUM" -> Over("SUM")
                 [] intent = "AVG" -> Over("AVG")
                 [] OTHER -> IF entities.columns # <<>>
                             THEN "SELECT " \o columns \o " FROM " \o table
                             ELSE "SELECT * FROM " \o table
        where_clause == _build_where_clause(entities.conditions, ctx)
    IN  IF tables = <<>> THEN "SELECT 1"
        ELSE IF where_clause # "" THEN sql \o " WHERE " \o where_clause
        ELSE sql

\* QueryTransformer.transform_to_sql
transform_to_sql(query, loaded, ctx) ==
    _build_sql_query(_determine_query_intent(query), _extract_entities(query, loaded), ctx)

(***************************************************************************)
(* ContextManager.                                                         *)
(***************************************************************************)
\* ContextManager.__init__
NewContext ==
    [current_tables |-> <<>>, previous_queries |-> <<>>, filters |-> <<>>,
     recent_values |-> <<>>]

common_tables == <<"sales", "products", "customers", "orders">>

\* update_context whose history drops its newest entry instead of its oldest
UpdateContextDropNewest(ctx, query) ==
    LET appended == Append(ctx.previous_queries, query)
        tables == Filter(common_tables,
                         [t \in 1..Len(common_tables) |->
                            Contains(Lower(query), common_tables[t])])
    IN  [ctx EXCEPT
            !.previous_queries = IF Len(appended) > 5
                                 THEN SubSeq(appended, 1, Len(appended) - 1)
                                 ELSE appended,
            !.current_tables = IF tables # <<>> THEN tables ELSE @]

\* update_context that stores the tables of the query even when it names none
UpdateContextForgets(ctx, query) ==
    LET appended == Append(ctx.previous_queries, query)
        tables == Filter(common_tables,
                         [t \in 1..Len(common_tables) |->
                            Contains(Lower(query), common_tables[t])])
    IN  [ctx EXCEPT
            !.previous_queries = IF Len(appended) > 5 THEN Tail(appended) ELSE appended,
            !.current_tables = tables]

\* ContextManager.update_context
update_context(ctx, query) ==
    LET appended == Append(ctx.previous_queries, query)
        query_lower == Lower(query)
        tables == Filter(common_tables,
                         [t \in 1..Len(common_tables) |->
                            Contains(query_lower, common_tables[t])])
    IN  [ctx EXCEPT
            !.previous_queries = IF Len(appended) > 5 THEN Tail(appended) ELSE appended,
            !.current_tables = IF tables # <<>> THEN tables ELSE @]

RECURSIVE SetAll(_, _)
\* for key, value in row.items(): d[key] = value
SetAll(d, row) ==
    IF Len(row) = 0 THEN d
    ELSE SetAll(DictSet(d, row[1].name, row[1].value), Tail(row))

\* ContextManager.update_with_results
update_with_results(ctx, rows) ==
    IF Len(rows) > 0
    THEN [ctx EXCEPT !.recent_values = SetAll(@, rows[1])]
    ELSE ctx

(***************************************************************************)
(* DataAgent.                                                              *)
(***************************************************************************)
MockRow(n, item, value, date) ==
    <<Entry("id", IntValue(n)), Entry("name", StrValue(item)),
      Entry("value", IntValue(value)), Entry("date", StrValue(date))>>

\* DataAgent._simulate_query_execution
_simulate_query_execution(sql_query) ==
    IF Contains(sql_query, "COUNT") THEN << <<Entry("count", IntValue(42))>> >>
    ELSE IF Contains(sql_query, "SUM") THEN << <<Entry("sum", FloatValue("1234.56"))>> >>
    ELSE IF Contains(sql_query, "AVG") THEN << <<Entry("average", FloatValue("78.9"))>> >>
    ELSE << MockRow(1, "Item 1", 100, "2023-01-01"),
            MockRow(2, "Item 2", 200, "2023-02-01"),
            MockRow(3, "Item 3", 300, "2023-03-01") >>

\* DataAgent.process_query: the context it leaves in the ContextManager
ContextAfterQuery(ctx, loaded, query) ==
    LET updated == update_context(ctx, query)
        sql_query == transform_to_sql(query, loaded, updated)
    IN  update_with_results(updated, _simulate_query_execution(sql_query))

\* DataAgent.process_query: the dict it returns
process_query(ctx, loaded, query) ==
    LET updated == update_context(ctx, query)
        sql_query == transform_to_sql(query, loaded, updated)
        rows == _simulate_query_execution(sql_query)
    IN  [kind |-> "dict",
         results |-> rows,
         visualization |-> recommend_visualization(rows, query),
         interpreted_query |-> sql_query]

(***************************************************************************)
(* agentic_bi_platform.py: generate_insight.                               *)
(***************************************************************************)
\* a plotly figure: px.line / px.bar / px.pie with its two columns
Figure(chart, x, y) == [kind |-> "figure", chart |-> chart, x |-> x, y |-> y]

\* `if x`, for an Optional[str]
Truthy(x) == ~Falsy(x)

\* df[column].dtype == 'datetime64[ns]': pandas gives that dtype to a column
\* of datetime objects only
IsDatetimeColumn(rows, c) == \A r \in 1..Len(rows) : rows[r][c].value.type = "datetime"

\* generate_insight from `result = ...process_query(query)` on: the dict it
\* returns for the response of the agent
InsightOf(response) ==
    LET rows == IF "results" \in DOMAIN response THEN response.results ELSE <<>>
        df_columns == IF Len(rows) = 0 THEN <<>> ELSE Keys(rows[1])
        InDf(name) == \E c \in 1..Len(df_columns) : df_columns[c] = name
        drawn == "visualization" \in DOMAIN response
                    /\ response.visualization.kind # "None"
        viz_type == IF drawn THEN response.visualization.type ELSE "table"
        viz_config == IF drawn THEN response.visualization.config ELSE <<>>
        Bound(x, y) == Truthy(x) /\ Truthy(y) /\ InDf(x) /\ InDf(y)
        Plot(chart, x, y) == IF Bound(x, y) THEN Figure(chart, x, y) ELSE ReturnsNone
        chosen ==
            CASE viz_type = "line-chart" ->
                    [type |-> "line",
                     fig |-> Plot("line", Get(viz_config, "xAxis"), Get(viz_config, "yAxis"))]
              [] viz_type = "bar-chart" ->
                    [type |-> "bar",
                     fig |-> Plot("bar", Get(viz_config, "xAxis"), Get(viz_config, "yAxis"))]
              [] viz_type = "pie-chart" ->
                    [type |-> "pie",
                     fig |-> Plot("pie", Get(viz_config, "labelColumn"),
                                  Get(viz_config, "valueColumn"))]
              [] OTHER -> [type |-> "table", fig |-> ReturnsNone]
        final ==
            IF chosen.fig.kind = "None" /\ Len(rows) > 0 /\ Len(df_columns) >= 2
            THEN IF \/ IsDatetimeColumn(rows, 1)
                    \/ Contains(Lower(df_columns[1]), "date")
                    \/ Contains(Lower(df_columns[1]), "time")
                 THEN [type |-> "line", fig |-> Figure("line", df_columns[1], df_columns[2])]
                 ELSE [type |-> "bar", fig |-> Figure("bar", df_columns[1], df_columns[2])]
            ELSE chosen
    IN  IF "error" \in DOMAIN response
        THEN [kind |-> "dict", success |-> FALSE, message |-> response.error]
        ELSE [kind |-> "dict", success |-> TRUE, data |-> rows,
              sql_query |-> response.interpreted_query,
              visualization |-> final.fig,
              type |-> final.type,
              insights |-> "Query processed using the Data Agent. SQL: "
                            \o response.interpreted_query]

\* generate_insight(conn, query, schema): the schema is converted into
\* agent_schema, which nothing reads, and the agent is initialised with the
\* data source named 'current_db'
generate_insight(query) ==
    LET loaded == load_schemas(<<>>, <<[name |-> "current_db", type |-> "sqlite"]>>)
    IN  CHOOSE insight \in {InsightOf(response) :
                                response \in {process_query(NewContext, loaded, query)}} :
            TRUE

(***************************************************************************)
(* The inputs the callers draw from.                                       *)
(***************************************************************************)
Column(n, t, k) == [name |-> n, type |-> t, pk |-> k]

SalesTable ==
    [name |-> "sales",
     columns |-> <<Column("id", "INTEGER", TRUE), Column("date", "TEXT", FALSE),
                   Column("amount", "REAL", FALSE),
                   Column("product_id", "INTEGER", FALSE)>>,
     row_count |-> 100]

\* two time columns, and both value columns the vocabulary can mention
PaymentsTable ==
    [name |-> "payments",
     columns |-> <<Column("id", "INTEGER", TRUE), Column("customer_id", "INTEGER", FALSE),
                   Column("paid_date", "TEXT", FALSE), Column("Amount", "REAL", FALSE),
                   Column("total", "REAL", FALSE), Column("created_at", "TEXT", FALSE)>>,
     row_count |-> 50]

\* no column name holds a time keyword, and no column is a value column
OrderItemsTable ==
    [name |-> "order_items",
     columns |-> <<Column("item_id", "INTEGER", TRUE), Column("sku", "TEXT", FALSE),
                   Column("label", "TEXT", FALSE)>>,
     row_count |-> 100]

\* a table with zero columns and the most rows
AuditLogTable == [name |-> "audit_log", columns |-> <<>>, row_count |-> 500]

TablePool == {SalesTable, PaymentsTable, OrderItemsTable, AuditLogTable}

\* words that decide the intent
Vocabulary == {"Trend", "top", "average", "percentage", "compare", "total"}

\* phrases that mention tables and columns, under two of the intents
ResolveVocabulary == {"top", "total", "payments", "order items", "top amount"}

HistTablePool == {SalesTable, AuditLogTable}
HistVocabulary == {"Trend", "top"}

(***************************************************************************)
(* The state machine: a caller loads a schema, composes a query text and   *)
(* calls one of the two entry points.                                      *)
(***************************************************************************)
NoResult == [kind |-> "none yet"]
NoCall == [impl |-> None]
NotCalled == "<not called>"

\* the builders whose bodies call the table resolver
ResolvingBuilders(entry) ==
    IF entry = "generate_sql"
    THEN {"trend", "distribution", "top", "comparison", "aggregate"}
    ELSE {"trend", "distribution"}

\* the builder's local table_name, when its body resolves one
BuilderTable(entry, h, text, sch) ==
    IF h \in ResolvingBuilders(entry) THEN IdentifyRelevantTable(text, sch)
    ELSE NotCalled

\* the kept call, marked once a call with other arguments has returned
SeenAfter(entry) ==
    IF seen = NoCall THEN seen
    ELSE [seen EXCEPT !.other = @ \/ seen.impl # entry
                                 \/ seen.query_text # query_text
                                 \/ seen.schema # schema]

Init ==
    /\ query_templates = LoadTemplates
    /\ schema = <<>>
    /\ query_text = ""
    /\ n_words = 0
    /\ pc = "input"
    /\ impl = None
    /\ handler = None
    /\ resolved_table = NotCalled
    /\ result = NoResult
    /\ seen = NoCall
    /\ schemas = <<>>
    /\ context = NewContext
    /\ results = <<>>
    /\ submitted = <<>>

\* schema introspection adds one more table to the dict
AddTable(pool) ==
    \E t \in pool :
        /\ pc = "input"
        /\ n_words = 0
        /\ Len(schema) < MaxTables
        /\ \A j \in 1..Len(schema) : schema[j].name # t.name
        /\ schema' = Append(schema, t)
        /\ UNCHANGED <<query_templates, query_text, n_words, pc, impl, handler,
                       resolved_table, result, seen>>
        /\ UNCHANGED agent_vars

\* the caller extends the query text by one word
TypeWord(words) ==
    \E w \in words :
        /\ pc = "input"
        /\ n_words < MaxWords
        /\ query_text' = IF n_words = 0 THEN w ELSE query_text \o " " \o w
        /\ n_words' = n_words + 1
        /\ UNCHANGED <<query_templates, schema, pc, impl, handler,
                       resolved_table, result, seen>>
        /\ UNCHANGED agent_vars

\* QueryGenerator().generate_sql(query_text, schema)
CallGenerateSql ==
    /\ pc = "input"
    /\ impl' = "generate_sql"
    /\ handler' = GenerateSqlHandler(query_templates, query_text)
    /\ resolved_table' = BuilderTable("generate_sql", handler', query_text, schema)
    /\ result' = generate_sql(query_templates, query_text, schema)
    /\ query_templates' = TemplatesAfterCall(query_templates, query_text)
    /\ seen' = SeenAfter("generate_sql")
    /\ pc' = "returned"
    /\ schema' = SchemaAfterCall(schema)
    /\ UNCHANGED <<query_text, n_words>>
    /\ UNCHANGED agent_vars

\* nlp_to_sql(query_text, schema)
CallNlpToSql ==
    /\ pc = "input"
    /\ impl' = "nlp_to_sql"
    /\ handler' = NlpToSqlHandler(query_text)
    /\ resolved_table' = BuilderTable("nlp_to_sql", handler', query_text, schema)
    /\ result' = nlp_to_sql(query_text, schema)
    /\ seen' = SeenAfter("nlp_to_sql")
    /\ pc' = "returned"
    /\ schema' = SchemaAfterCall(schema)
    /\ UNCHANGED <<query_templates, query_text, n_words>>
    /\ UNCHANGED agent_vars

\* the caller starts the next request on the same schema
NewRequest ==
    /\ pc = "returned"
    /\ pc' = "input"
    /\ query_text' = ""
    /\ n_words' = 0
    /\ impl' = None
    /\ handler' = None
    /\ resolved_table' = NotCalled
    /\ result' = NoResult
    /\ UNCHANGED <<query_templates, schema, seen>>
    /\ UNCHANGED agent_vars

\* the caller drops the schema to introspect again
Reintrospect ==
    /\ pc = "input"
    /\ n_words = 0
    /\ schema # <<>>
    /\ schema' = <<>>
    /\ UNCHANGED <<query_templates, query_text, n_words, pc, impl, handler,
                   resolved_table, result, seen>>
    /\ UNCHANGED agent_vars

\* an observer keeps one returned call to compare later calls with
Remember ==
    /\ pc = "returned"
    /\ seen = NoCall
    /\ seen' = [impl |-> impl, query_text |-> query_text, schema |-> schema,
                result |-> result, other |-> FALSE]
    /\ UNCHANGED <<query_templates, schema, query_text, n_words, pc, impl,
                   handler, resolved_table, result>>
    /\ UNCHANGED agent_vars

Next ==
    \/ AddTable(TablePool)
    \/ TypeWord(Vocabulary)
    \/ CallGenerateSql
    \/ CallNlpToSql
    \/ NewRequest
    \/ Reintrospect

Spec == Init /\ [][Next]_vars

NextResolve ==
    \/ AddTable(TablePool)
    \/ TypeWord(ResolveVocabulary)
    \/ CallGenerateSql
    \/ CallNlpToSql
    \/ NewRequest
    \/ Reintrospect

SpecResolve == Init /\ [][NextResolve]_vars

NextHist ==
    \/ AddTable(HistTablePool)
    \/ TypeWord(HistVocabulary)
    \/ CallGenerateSql
    \/ CallNlpToSql
    \/ NewRequest
    \/ Reintrospect
    \/ Remember

SpecHist == Init /\ [][NextHist]_vars

(***************************************************************************)
(* The helpers called on their own: a caller composes a text and calls     *)
(* _identify_aggregation_function on it.                                   *)
(***************************************************************************)
\* phrases that name aggregations
AggVocabulary ==
    {"total", "Average", "count", "max", "minimum", "how many", "number of", "avg",
     "sales"}

\* the str a helper returned
Returns(v) == [kind |-> "value", value |-> v]

\* QueryGenerator()._identify_aggregation_function(query_text)
CallIdentifyAggregationFunction ==
    /\ pc = "input"
    /\ impl' = "_identify_aggregation_function"
    /\ handler' = None
    /\ resolved_table' = NotCalled
    /\ result' = Returns(IdentifyAggregationFunction(query_text))
    /\ pc' = "returned"
    /\ UNCHANGED <<query_templates, schema, query_text, n_words, seen>>
    /\ UNCHANGED agent_vars

NextAgg ==
    \/ TypeWord(AggVocabulary)
    \/ CallIdentifyAggregationFunction
    \/ NewRequest

SpecAgg == Init /\ [][NextAgg]_vars

(***************************************************************************)
(* A caller composes a text and calls _extract_limit on it.                *)
(***************************************************************************)
\* phrases with and without superlatives and numbers
LimitVocabulary ==
    {"top 5 customers by orders", "top customers", "list customers", "first",
     "3 best", "top 0", "Highest  12", "most"}

\* QueryGenerator()._extract_limit(query_text)
CallExtractLimit ==
    /\ pc = "input"
    /\ impl' = "_extract_limit"
    /\ handler' = None
    /\ resolved_table' = NotCalled
    /\ result' = Returns(ExtractLimit(query_text))
    /\ pc' = "returned"
    /\ UNCHANGED <<query_templates, schema, query_text, n_words, seen>>
    /\ UNCHANGED agent_vars

NextLimit ==
    \/ TypeWord(LimitVocabulary)
    \/ CallExtractLimit
    \/ NewRequest

SpecLimit == Init /\ [][NextLimit]_vars

(***************************************************************************)
(* Ranking requests: texts with superlatives and numbers on a schema of    *)
(* customers and their orders.                                             *)
(***************************************************************************)
\* no column name holds "customer", and no column is a value column
CustomersTable ==
    [name |-> "customers",
     columns |-> <<Column("id", "INTEGER", TRUE), Column("name", "TEXT", FALSE),
                   Column("email", "TEXT", FALSE), Column("signup_date", "TEXT", FALSE)>>,
     row_count |-> 40]

OrdersTable ==
    [name |-> "orders",
     columns |-> <<Column("id", "INTEGER", TRUE), Column("customer_id", "INTEGER", FALSE),
                   Column("order_date", "TEXT", FALSE), Column("total", "REAL", FALSE)>>,
     row_count |-> 90]

TopTablePool == {CustomersTable, OrdersTable, OrderItemsTable}

TopVocabulary ==
    {"who are our top 10 customers", "by total", "most", "top 0", "3 best", "first 7"}

NextTop ==
    \/ AddTable(TopTablePool)
    \/ TypeWord(TopVocabulary)
    \/ CallGenerateSql
    \/ NewRequest
    \/ Reintrospect

SpecTop == Init /\ [][NextTop]_vars

(***************************************************************************)
(* Requests of the four intents that build SQL, on tables with and without *)
(* date-like time columns and value columns.                               *)
(***************************************************************************)
\* the first time column is named for a year; the value column is that one
SubscriptionsTable ==
    [name |-> "subscriptions",
     columns |-> <<Column("id", "INTEGER", TRUE), Column("start_year", "INTEGER", FALSE),
                   Column("plan", "TEXT", FALSE), Column("renewed_at", "TEXT", FALSE)>>,
     row_count |-> 70]

BuildTablePool == {SalesTable, CustomersTable, SubscriptionsTable}

BuildVocabulary ==
    {"show total sales", "over time", "average", "top", "compare", "Percentage",
     "breakdown"}

NextBuild ==
    \/ AddTable(BuildTablePool)
    \/ TypeWord(BuildVocabulary)
    \/ CallGenerateSql
    \/ CallNlpToSql
    \/ NewRequest
    \/ Reintrospect

SpecBuild == Init /\ [][NextBuild]_vars

(***************************************************************************)
(* Requests that group by a category column, and _identify_category_column *)
(* called on its own, on tables that exercise each of its loops.           *)
(***************************************************************************)
\* the products table of SchemaManager.discover_tables: "name" comes before
\* "category"
ProductsTable ==
    [name |-> "products",
     columns |-> <<Column("id", "INTEGER", TRUE), Column("name", "TEXT", FALSE),
                   Column("category", "TEXT", FALSE), Column("price", "DECIMAL", FALSE)>>,
     row_count |-> 60]

\* a products table whose only category-keyword column is "category", after
\* a text column
CatalogTable ==
    [name |-> "products",
     columns |-> <<Column("id", "INTEGER", TRUE), Column("sku", "TEXT", FALSE),
                   Column("category", "TEXT", FALSE), Column("price", "DECIMAL", FALSE)>>,
     row_count |-> 60]

\* no category-keyword name; the first text column is not the first column
ReviewsTable ==
    [name |-> "reviews",
     columns |-> <<Column("stars", "INTEGER", FALSE), Column("title", "TEXT", FALSE),
                   Column("product_ref", "INTEGER", FALSE),
                   Column("client_id", "INTEGER", FALSE)>>,
     row_count |-> 30]

\* every column is part of the primary key
LinksTable ==
    [name |-> "links",
     columns |-> <<Column("src", "INTEGER", TRUE), Column("dst", "INTEGER", TRUE)>>,
     row_count |-> 20]

CategoryTablePool ==
    {ProductsTable, CatalogTable, ReviewsTable, OrdersTable, LinksTable, AuditLogTable}

CategoryVocabulary ==
    {"what's the distribution of products by category", "compare", "percentage"}

\* QueryGenerator()._identify_category_column(schema[table_name]) for a table
\* of the schema
CallIdentifyCategoryColumn ==
    \E j \in 1..Len(schema) :
        /\ pc = "input"
        /\ n_words = 0
        /\ impl' = "_identify_category_column"
        /\ handler' = None
        /\ resolved_table' = schema[j].name
        /\ result' = Returns(IdentifyCategoryColumn(TableInfo(schema, schema[j].name)))
        /\ pc' = "returned"
        /\ schema' = SchemaAfterCall(schema)
        /\ UNCHANGED <<query_templates, query_text, n_words, seen>>
        /\ UNCHANGED agent_vars

NextCategory ==
    \/ AddTable(CategoryTablePool)
    \/ TypeWord(CategoryVocabulary)
    \/ CallGenerateSql
    \/ CallIdentifyCategoryColumn
    \/ NewRequest
    \/ Reintrospect

SpecCategory == Init /\ [][NextCategory]_vars

(***************************************************************************)
(* _identify_entity_column called on its own, with texts that name entity  *)
(* nouns and texts that name none.                                         *)
(***************************************************************************)
\* the primary key is not the first column; no entity or descriptive name
EventsTable ==
    [name |-> "events",
     columns |-> <<Column("day", "TEXT", FALSE), Column("code", "INTEGER", TRUE)>>,
     row_count |-> 10]

\* no primary key, no entity or descriptive name
MetricsTable ==
    [name |-> "metrics",
     columns |-> <<Column("hits", "INTEGER", FALSE), Column("day", "TEXT", FALSE)>>,
     row_count |-> 10]

EntityTablePool ==
    {ReviewsTable, ProductsTable, OrdersTable, EventsTable, MetricsTable, AuditLogTable}

EntityVocabulary == {"top product", "Client", "best"}

\* QueryGenerator()._identify_entity_column(schema[table_name], query_text) for
\* a table of the schema
CallIdentifyEntityColumn ==
    \E j \in 1..Len(schema) :
        /\ pc = "input"
        /\ impl' = "_identify_entity_column"
        /\ handler' = None
        /\ resolved_table' = schema[j].name
        /\ result' = Returns(IdentifyEntityColumn(TableInfo(schema, schema[j].name),
                                                  query_text))
        /\ pc' = "returned"
        /\ schema' = SchemaAfterCall(schema)
        /\ UNCHANGED <<query_templates, query_text, n_words, seen>>
        /\ UNCHANGED agent_vars

NextEntity ==
    \/ AddTable(EntityTablePool)
    \/ TypeWord(EntityVocabulary)
    \/ CallIdentifyEntityColumn
    \/ NewRequest
    \/ Reintrospect

SpecEntity == Init /\ [][NextEntity]_vars

(***************************************************************************)
(* Every operation of the query core that is given the schema, or a table  *)
(* of it, called on requests of every intent.                              *)
(***************************************************************************)
FrameTablePool == {SalesTable, OrdersTable, AuditLogTable}

FrameVocabulary == {"Trend", "percentage", "top", "compare", "total", "list"}

\* QueryGenerator()._identify_relevant_table(query_text, schema)
CallIdentifyRelevantTable ==
    /\ pc = "input"
    /\ impl' = "_identify_relevant_table"
    /\ handler' = None
    /\ resolved_table' = IdentifyRelevantTable(query_text, schema)
    /\ result' = Returns(IdentifyRelevantTable(query_text, schema))
    /\ pc' = "returned"
    /\ schema' = SchemaAfterCall(schema)
    /\ UNCHANGED <<query_templates, query_text, n_words, seen>>
    /\ UNCHANGED agent_vars

\* QueryGenerator()._identify_time_column(schema[table_name]) for a table of
\* the schema
CallIdentifyTimeColumn ==
    \E j \in 1..Len(schema) :
        /\ pc = "input"
        /\ n_words = 0
        /\ impl' = "_identify_time_column"
        /\ handler' = None
        /\ resolved_table' = schema[j].name
        /\ result' = Returns(IdentifyTimeColumn(TableInfo(schema, schema[j].name)))
        /\ pc' = "returned"
        /\ schema' = SchemaAfterCall(schema)
        /\ UNCHANGED <<query_templates, query_text, n_words, seen>>
        /\ UNCHANGED agent_vars

\* QueryGenerator()._identify_numeric_column(schema[table_name]) for a table
\* of the schema
CallIdentifyNumericColumn ==
    \E j \in 1..Len(schema) :
        /\ pc = "input"
        /\ n_words = 0
        /\ impl' = "_identify_numeric_column"
        /\ handler' = None
        /\ resolved_table' = schema[j].name
        /\ result' = Returns(IdentifyNumericColumn(TableInfo(schema, schema[j].name)))
        /\ pc' = "returned"
        /\ schema' = SchemaAfterCall(schema)
        /\ UNCHANGED <<query_templates, query_text, n_words, seen>>
        /\ UNCHANGED agent_vars

NextFrame ==
    \/ AddTable(FrameTablePool)
    \/ TypeWord(FrameVocabulary)
    \/ CallGenerateSql
    \/ CallIdentifyRelevantTable
    \/ CallIdentifyTimeColumn
    \/ CallIdentifyCategoryColumn
    \/ CallIdentifyNumericColumn
    \/ CallIdentifyEntityColumn
    \/ NewRequest
    \/ Reintrospect

SpecFrame == Init /\ [][NextFrame]_vars

(***************************************************************************)
(* The DataAgent: a caller builds an agent, loads data sources into it and *)
(* gives it queries; the ContextManager is also driven on its own.         *)
(***************************************************************************)
\* the state of the query core and of its callers
core_vars ==
    <<query_templates, schema, query_text, n_words, pc, impl, handler,
      resolved_table, result, seen>>

\* DataAgent(): a new agent with a new SchemaManager and ContextManager; the
\* caller drops the response of the old one
NewAgent ==
    /\ submitted # <<>> \/ schemas # <<>>
    /\ schemas' = <<>>
    /\ context' = NewContext
    /\ submitted' = <<>>
    /\ results' = <<>>
    /\ query_text' = ""
    /\ impl' = None
    /\ result' = NoResult
    /\ UNCHANGED <<query_templates, schema, n_words, pc, handler, resolved_table, seen>>

ContextQueries == {"show sales", "list products and orders", "how many"}

\* context_manager.update_context(query)
UpdateContext(queries) ==
    \E query \in queries :
        /\ Len(submitted) < MaxQueries
        /\ context' = update_context(context, query)
        /\ submitted' = Append(submitted, query)
        /\ UNCHANGED <<schemas, results>>
        /\ UNCHANGED core_vars

NextContext ==
    \/ UpdateContext(ContextQueries)
    \/ NewAgent

SpecContext == Init /\ [][NextContext]_vars

DataSources ==
    {[name |-> "sales", type |-> "mysql"], [name |-> "customers", type |-> "postgres"],
     [name |-> "current_db", type |-> "sqlite"]}

AgentQueries ==
    {"show sales", "How many orders did customers place", "and the average",
     "list products by category"}

\* agent.initialize([data_source])
Initialize(sources) ==
    \E data_source \in sources :
        /\ submitted = <<>>
        /\ schemas' = load_schemas(schemas, <<data_source>>)
        /\ UNCHANGED <<context, results, submitted>>
        /\ UNCHANGED core_vars

\* agent.process_query(query)
ProcessQuery(queries) ==
    \E query \in queries :
        /\ Len(submitted) < MaxCalls
        /\ context' = ContextAfterQuery(context, schemas, query)
        /\ result' = process_query(context, schemas, query)
        /\ results' = result'.results
        /\ submitted' = Append(submitted, query)
        /\ query_text' = query
        /\ impl' = "process_query"
        /\ UNCHANGED <<query_templates, schema, n_words, pc, handler, resolved_table,
                       seen, schemas>>

NextAgent ==
    \/ Initialize(DataSources)
    \/ ProcessQuery(AgentQueries)
    \/ NewAgent

SpecAgent == Init /\ [][NextAgent]_vars

(***************************************************************************)
(* The VisualizationEngine called on its own: a caller composes a query    *)
(* text and passes it with a result set.                                   *)
(***************************************************************************)
\* columns of each type, two of each: a date by name and a date by value,
\* a number and a numeric string, a str and a None
EntryPool ==
    {Entry("year", IntValue(2023)), Entry("created", StrValue("2023-01-01")),
     Entry("total", IntValue(7)), Entry("amount", StrValue("12.5")),
     Entry("region", StrValue("North")), Entry("note", NoneValue)}

\* the dicts of at most MaxColumns entries of the pool, keys distinct
RowPool ==
    UNION {{row \in [1..n -> EntryPool] :
                \A c, d \in 1..n : c # d => row[c].name # row[d].name} :
           n \in 0..MaxColumns}

\* the result sets: none, one row, and the three mock rows of the agent
ResultPool ==
    {<<>>, _simulate_query_execution("SELECT 1")} \cup {<<row>> : row \in RowPool}

VizVocabulary ==
    {"Trend", "over time", "compare", "by category", "distribution", "Percentage"}

\* VisualizationEngine().recommend_visualization(results, query_text)
CallRecommendVisualization ==
    \E rows \in ResultPool :
        /\ pc = "input"
        /\ impl' = "recommend_visualization"
        /\ results' = rows
        /\ result' = recommend_visualization(rows, query_text)
        /\ pc' = "returned"
        /\ UNCHANGED <<query_templates, schema, query_text, n_words, handler,
                       resolved_table, seen, schemas, context, submitted>>

\* VisualizationEngine()._analyze_data_structure(results)
CallAnalyzeDataStructure ==
    \E rows \in ResultPool :
        /\ pc = "input"
        /\ n_words = 0
        /\ impl' = "_analyze_data_structure"
        /\ results' = rows
        /\ result' = Returns(_analyze_data_structure(rows))
        /\ pc' = "returned"
        /\ UNCHANGED <<query_templates, schema, query_text, n_words, handler,
                       resolved_table, seen, schemas, context, submitted>>

\* the caller drops the result set and starts the next request
NextSelection ==
    /\ pc = "returned"
    /\ pc' = "input"
    /\ query_text' = ""
    /\ n_words' = 0
    /\ impl' = None
    /\ result' = NoResult
    /\ results' = <<>>
    /\ UNCHANGED <<query_templates, schema, handler, resolved_table, seen, schemas,
                   context, submitted>>

NextViz ==
    \/ TypeWord(VizVocabulary)
    \/ CallRecommendVisualization
    \/ CallAnalyzeDataStructure
    \/ NextSelection

SpecViz == Init /\ [][NextViz]_vars

(***************************************************************************)
(* generate_insight: the page composes a question and asks for an insight. *)
(***************************************************************************)
InsightVocabulary ==
    {"show sales trend", "over time", "compare", "by category", "distribution",
     "percentage", "how many", "total", "average", "list products", "orders"}

\* generate_insight(conn, query_text, schema)
CallGenerateInsight ==
    /\ pc = "input"
    /\ impl' = "generate_insight"
    /\ result' = generate_insight(query_text)
    /\ results' = result'.data
    /\ pc' = "returned"
    /\ UNCHANGED <<query_templates, schema, query_text, n_words, handler,
                   resolved_table, seen, schemas, context, submitted>>

NextInsight ==
    \/ TypeWord(InsightVocabulary)
    \/ CallGenerateInsight
    \/ NextSelection

SpecInsight == Init /\ [][NextInsight]_vars

(***************************************************************************)
(* Vocabulary of the properties.                                           *)
(***************************************************************************)
Returned == pc = "returned"
IsDict == result.kind = "dict"
Succeeded == result.kind = "dict" /\ result.success
\* a failure dict: success False, a non-empty message, no SQL
FailedWith(msg) ==
    /\ result.kind = "dict"
    /\ result.success = FALSE
    /\ result.message = msg
    /\ msg # ""
    /\ "query" \notin DOMAIN result

\* does the text hold one of the keywords, ignoring case
Has(text, kws) == \E k \in kws : Contains(Lower(text), k)

TrendWords == {"trend", "over time", "by month", "by day", "timeseries"}
DistributionWords == {"distribution", "breakdown", "by category", "percentage", "proportion"}
TopWords == {"top", "highest", "most", "best"}
ComparisonWords == {"compare", "versus", "against", "difference"}
AggregateWords == {"total", "sum", "average", "count", "min", "max"}
TimeWords == {"time", "date", "day", "month", "year", "created", "updated", "at"}

\* the intent the fixed priority order gives a text
IntentOf(text) ==
    IF Has(text, TrendWords) THEN "trend"
    ELSE IF Has(text, DistributionWords) THEN "distribution"
    ELSE IF Has(text, TopWords) THEN "top"
    ELSE IF Has(text, ComparisonWords) THEN "comparison"
    ELSE IF Has(text, AggregateWords) THEN "aggregate"
    ELSE "generic"

\* a builder ran the table resolver in the last call
Resolved == pc = "returned" /\ resolved_table # NotCalled

\* the tables of the schema whose normalized name is in the lower-cased query
NameMatches ==
    {j \in 1..Len(schema) :
        Contains(Lower(query_text), ReplaceUnderscore(Lower(schema[j].name)))}

\* the column-mention score of table j
MentionScore(j) ==
    Cardinality({c \in 1..Len(schema[j].columns) :
        Contains(Lower(query_text),
                 ReplaceUnderscore(Lower(schema[j].columns[c].name)))})

Least(S) == CHOOSE j \in S : \A h \in S : j <= h
TopScorers ==
    {j \in 1..Len(schema) : \A h \in 1..Len(schema) : MentionScore(h) <= MentionScore(j)}
Largest ==
    {j \in 1..Len(schema) :
        \A h \in 1..Len(schema) : schema[h].row_count <= schema[j].row_count}
SomeScore == \E j \in 1..Len(schema) : MentionScore(j) > 0

\* the index of the resolved table in the schema, 0 when it is no key of it
ResolvedIndex ==
    IF \E j \in 1..Len(schema) : schema[j].name = resolved_table
    THEN CHOOSE j \in 1..Len(schema) : schema[j].name = resolved_table
    ELSE 0

\* the texts of the column placeholders of a SQL text, in order
ColumnTexts(parts) ==
    LET IsCol(part) == part.kind = "column"
        cols == SelectSeq(parts, IsCol)
    IN  [i \in 1..Len(cols) |-> cols[i].text]

(***************************************************************************)
(* C1: both entry points dispatch to exactly one intent, the first in the  *)
(* order trend, distribution, top, comparison, aggregate, generic whose    *)
(* keyword list has a keyword in the lower-cased text; trend and top       *)
(* keywords together give trend, "average" with "top" gives top.           *)
(***************************************************************************)
C1_IntentPriority ==
    Returned =>
        /\ handler = IntentOf(query_text)
        /\ Has(query_text, TrendWords) /\ Has(query_text, TopWords) => handler = "trend"
        /\ /\ Has(query_text, {"average"}) /\ Has(query_text, {"top"})
           /\ ~Has(query_text, TrendWords) /\ ~Has(query_text, DistributionWords)
           => handler = "top"

C1_Witness ==
    /\ Returned
    /\ impl = "generate_sql"
    /\ Has(query_text, TrendWords) /\ Has(query_text, TopWords)
    /\ query_text # Lower(query_text)
    /\ handler = "trend"

(***************************************************************************)
(* C2: generate_sql always returns a record with a boolean success field,  *)
(* and a message when success is false; it never raises and never returns  *)
(* no value.                                                               *)
(***************************************************************************)
C2_AlwaysResultRecord ==
    Returned /\ impl = "generate_sql" =>
        /\ result.kind = "dict"
        /\ result.success \in BOOLEAN
        /\ ~result.success => "message" \in DOMAIN result /\ result.message # ""

(***************************************************************************)
(* C3: a query of generic intent, on a schema with at least one table,     *)
(* yields success = true and visualization_type = table.                   *)
(***************************************************************************)
C3_GenericSucceeds ==
    Returned /\ handler = "generic" /\ Len(schema) >= 1 =>
        /\ result.kind = "dict"
        /\ result.success
        /\ result.visualization_type = "table"

(***************************************************************************)
(* C4: on a schema with zero tables the resolver returns None and each of  *)
(* the five builders of QueryGenerator returns success = false with a      *)
(* message and no SQL.                                                     *)
(***************************************************************************)
C4_EmptySchemaFails ==
    /\ Returned /\ impl = "generate_sql" /\ schema = <<>>
    /\ handler \in {"trend", "distribution", "top", "comparison", "aggregate"}
    => /\ resolved_table = None
       /\ FailedWith("Could not identify a relevant table for this query.")

C4_Witness ==
    /\ Returned /\ impl = "generate_sql" /\ schema = <<>>
    /\ handler = "aggregate"
    /\ result.kind = "dict" /\ ~result.success

(***************************************************************************)
(* C5: the trend builder fails with the missing-time-column message and    *)
(* no SQL when no column name of the resolved table holds a time keyword,  *)
(* and otherwise succeeds on the first such column in column order.        *)
(***************************************************************************)
C5_TrendTimeColumn ==
    Resolved /\ handler = "trend" /\ ResolvedIndex # 0 =>
        LET cols == schema[ResolvedIndex].columns
            timed == {c \in 1..Len(cols) : Has(cols[c].name, TimeWords)}
        IN  IF timed = {}
            THEN FailedWith("Could not identify a time-based column for trend analysis.")
            ELSE /\ Succeeded
                 /\ Len(ColumnTexts(result.query)) = 3
                 /\ ColumnTexts(result.query)[1] = cols[Least(timed)].name
                 /\ ColumnTexts(result.query)[3] = cols[Least(timed)].name

C5_Witness ==
    /\ Resolved /\ handler = "trend" /\ impl = "generate_sql" /\ Succeeded
    /\ Cardinality({c \in 1..Len(schema[ResolvedIndex].columns) :
                        Has(schema[ResolvedIndex].columns[c].name, TimeWords)}) >= 2

(***************************************************************************)
(* C6: the result of a call is a function of that call's arguments alone:  *)
(* a call with the arguments of an earlier call returns the same result,   *)
(* whatever calls were made in between.                                    *)
(***************************************************************************)
C6_HistoryIndependent ==
    /\ Returned /\ seen # NoCall
    /\ seen.impl = impl /\ seen.query_text = query_text /\ seen.schema = schema
    => result = seen.result

C6_Witness ==
    /\ Returned /\ seen # NoCall /\ seen.other
    /\ impl = "generate_sql"
    /\ seen.impl = impl /\ seen.query_text = query_text /\ seen.schema = schema
    /\ Succeeded
    /\ result = seen.result

(***************************************************************************)
(* C7: in every successful result the table is a key of the schema of the  *)
(* call and every column in the SQL is a column of that table, except the  *)
(* sentinel * as the argument of the aggregate.                            *)
(***************************************************************************)
C7_PlanWithinSchema ==
    Returned /\ Succeeded =>
        \E j \in 1..Len(schema) :
            /\ schema[j].name = result.table
            /\ \A i \in 1..Len(result.query) :
                /\ result.query[i].kind = "table" => result.query[i].text = result.table
                /\ result.query[i].kind = "column" =>
                    \/ \E c \in 1..Len(schema[j].columns) :
                            schema[j].columns[c].name = result.query[i].text
                    \/ /\ result.query[i].text = "*"
                       /\ i > 1
                       /\ result.query[i - 1] = Lit("(")

C7_Witness ==
    /\ Returned /\ Succeeded
    /\ \E i \in 1..Len(result.query) : result.query[i] = Col("*")
    /\ \E i \in 1..Len(result.query) :
            result.query[i].kind = "column" /\ result.query[i].text # "*"

(***************************************************************************)
(* C8: when the normalized name of a table is in the lower-cased query,    *)
(* the resolver returns the first such table in schema order, whatever     *)
(* the column-mention scores and row counts are.                           *)
(***************************************************************************)
C8_NameTierFirst ==
    Resolved /\ NameMatches # {} => resolved_table = schema[Least(NameMatches)].name

C8_Witness ==
    /\ Resolved /\ NameMatches # {}
    /\ resolved_table = schema[Least(NameMatches)].name
    /\ \E k \in 1..Len(schema) :
        /\ k < Least(NameMatches)
        /\ MentionScore(k) > MentionScore(Least(NameMatches))
        /\ schema[k].row_count >= schema[Least(NameMatches)].row_count

(***************************************************************************)
(* C9: when no table name matches and some column-mention score is above   *)
(* zero, the resolver returns the first table in schema order among those  *)
(* with the maximum score.                                                 *)
(***************************************************************************)
C9_ScoreTierFirstMax ==
    Resolved /\ NameMatches = {} /\ SomeScore =>
        resolved_table = schema[Least(TopScorers)].name

C9_Witness ==
    /\ Resolved /\ NameMatches = {} /\ SomeScore
    /\ Cardinality(TopScorers) >= 2
    /\ resolved_table = schema[Least(TopScorers)].name

(***************************************************************************)
(* C10: when no table name matches and every score is zero, a non-empty    *)
(* schema resolves to the first table in schema order among those with     *)
(* the largest row_count; when a name matches or a score is above zero     *)
(* the resolved table is one that matched, not one picked by row_count.    *)
(***************************************************************************)
C10_RowCountTierLast ==
    Resolved /\ Len(schema) > 0 =>
        IF NameMatches = {} /\ ~SomeScore
        THEN resolved_table = schema[Least(Largest)].name
        ELSE /\ ResolvedIndex # 0
             /\ ResolvedIndex \in NameMatches \/ MentionScore(ResolvedIndex) > 0

C10_Witness ==
    /\ Resolved /\ NameMatches = {} /\ ~SomeScore
    /\ Len(schema) >= 2
    /\ Least(Largest) > 1
    /\ resolved_table = schema[Least(Largest)].name

\* the aggregation the fixed priority order gives a text
AggregationOf(text) ==
    IF Has(text, {"average", "avg"}) THEN "AVG"
    ELSE IF Has(text, {"sum", "total"}) THEN "SUM"
    ELSE IF Has(text, {"minimum", "min"}) THEN "MIN"
    ELSE IF Has(text, {"maximum", "max"}) THEN "MAX"
    ELSE IF Has(text, {"count", "how many", "number of"}) THEN "COUNT"
    ELSE "COUNT"

(***************************************************************************)
(* C11: _identify_aggregation_function returns, for every text, exactly    *)
(* one of COUNT, SUM, AVG, MIN, MAX: the first match in the order AVG,     *)
(* SUM, MIN, MAX, COUNT, and COUNT when nothing matches; "total" with      *)
(* "average" gives AVG, "count" with "max" gives MAX.                      *)
(***************************************************************************)
C11_AggregationPriority ==
    Returned /\ impl = "_identify_aggregation_function" =>
        /\ result.kind = "value"
        /\ result.value \in {"COUNT", "SUM", "AVG", "MIN", "MAX"}
        /\ result.value = AggregationOf(query_text)
        /\ Has(query_text, {"total"}) /\ Has(query_text, {"average"})
           => result.value = "AVG"
        /\ Has(query_text, {"count"}) /\ Has(query_text, {"max"}) /\ ~Has(query_text, {"min"})
           /\ ~Has(query_text, {"average", "avg", "sum", "total"})
           => result.value = "MAX"

C11_Witness ==
    /\ Returned /\ impl = "_identify_aggregation_function"
    /\ Has(query_text, {"total"}) /\ Has(query_text, {"average"})
    /\ query_text # Lower(query_text)
    /\ result.value = "AVG"

SuperlativeWords == {"top", "first", "highest", "best"}
DigitChars == {"0", "1", "2", "3", "4", "5", "6", "7", "8", "9"}
BlankChars == {" ", "\t", "\n", "\r", "\f"}

\* is every character of s one of chars
AllOf(s, chars) == \A k \in 1..Len(s) : SubSeq(s, k, k) \in chars

\* the last position of the numeral that starts at position a of q
NumeralEnd(q, a) ==
    CHOOSE e \in a..Len(q) :
        /\ AllOf(SubSeq(q, a, e), DigitChars)
        /\ e = Len(q) \/ SubSeq(q, e + 1, e + 1) \notin DigitChars

\* the numerals N of a "<superlative> <N>" that starts at position i of q
WordThenNumber(q, i) ==
    {SubSeq(q, a, NumeralEnd(q, a)) :
        a \in {b \in (i + 1)..Len(q) :
                /\ SubSeq(q, b, b) \in DigitChars
                /\ \E w \in SuperlativeWords :
                    /\ b > i + Len(w)
                    /\ SubSeq(q, i, i + Len(w) - 1) = w
                    /\ AllOf(SubSeq(q, i + Len(w), b - 1), BlankChars)}}

\* the numerals N of a "<N> <superlative>" that starts at position i of q
NumberThenWord(q, i) ==
    IF SubSeq(q, i, i) \notin DigitChars THEN {}
    ELSE LET e == NumeralEnd(q, i)
         IN  IF \E b \in (e + 2)..Len(q) : \E w \in SuperlativeWords :
                    /\ AllOf(SubSeq(q, e + 1, b - 1), BlankChars)
                    /\ b + Len(w) - 1 <= Len(q)
                    /\ SubSeq(q, b, b + Len(w) - 1) = w
             THEN {SubSeq(q, i, e)}
             ELSE {}

LimitPatternAt(q, i) == WordThenNumber(q, i) \cup NumberThenWord(q, i)

\* the positions of the lower-cased text where a limit pattern starts
LimitPatterns(text) ==
    LET q == Lower(text) IN {i \in 1..Len(q) : LimitPatternAt(q, i) # {}}

\* the number a numeral denotes
RECURSIVE Decimal(_)
Decimal(d) ==
    IF d = "" THEN 0
    ELSE 10 * Decimal(SubSeq(d, 1, Len(d) - 1))
         + (CHOOSE n \in 0..9 : ToString(n) = SubSeq(d, Len(d), Len(d)))

\* the numbers of the limit pattern that starts at position i of the text
LimitNumbersAt(text, i) == {Decimal(d) : d \in LimitPatternAt(Lower(text), i)}

CalledExtractLimit == Returned /\ impl = "_extract_limit"

(***************************************************************************)
(* C12: _extract_limit returns N when the text holds a superlative (top,   *)
(* first, highest, best) next to the integer N with whitespace between,    *)
(* for the first such occurrence; it returns None when the text holds      *)
(* neither such a pattern nor a superlative; "top 5 customers by orders"   *)
(* gives 5, "top customers" gives 10, "list customers" gives None.         *)
(***************************************************************************)
C12_LimitFromPattern ==
    CalledExtractLimit =>
        /\ LimitPatterns(query_text) # {} =>
            /\ result.value # NoLimit
            /\ result.value[1] \in LimitNumbersAt(query_text, Least(LimitPatterns(query_text)))
        /\ LimitPatterns(query_text) = {} /\ ~Has(query_text, SuperlativeWords) =>
            result.value = NoLimit
        /\ query_text = "top 5 customers by orders" => result.value = <<5>>
        /\ query_text = "top customers" => result.value = <<10>>
        /\ query_text = "list customers" => result.value = NoLimit

C12_Witness ==
    /\ CalledExtractLimit
    /\ \E i \in LimitPatterns(query_text) :
        /\ i > Least(LimitPatterns(query_text))
        /\ LimitNumbersAt(query_text, i)
            # LimitNumbersAt(query_text, Least(LimitPatterns(query_text)))
        /\ NumberThenWord(Lower(query_text), Least(LimitPatterns(query_text))) # {}
    /\ result.value # NoLimit
    /\ result.value[1] \in LimitNumbersAt(query_text, Least(LimitPatterns(query_text)))

(***************************************************************************)
(* C13: when the text holds no limit pattern but holds one of the          *)
(* superlatives top, first, highest, best anywhere, _extract_limit         *)
(* returns 10, for each of the four keywords.                              *)
(***************************************************************************)
C13_SuperlativeDefaultsTo10 ==
    CalledExtractLimit /\ LimitPatterns(query_text) = {} /\ Has(query_text, SuperlativeWords)
    => result.value = <<10>>

(***************************************************************************)
(* C14: every value other than None that _extract_limit returns is an      *)
(* integer greater than or equal to 1.                                     *)
(***************************************************************************)
C14_LimitPositive ==
    CalledExtractLimit /\ result.value # NoLimit =>
        result.value[1] \in Nat /\ result.value[1] >= 1

\* the limit the text asks for: the number of its first limit pattern, else 10
RequestedLimit(text) ==
    IF LimitPatterns(text) = {} THEN 10
    ELSE CHOOSE n \in LimitNumbersAt(text, Least(LimitPatterns(text))) : TRUE

\* the values interpolated after LIMIT, in order
LimitTexts(parts) ==
    LET IsLim(part) == part.kind = "limit"
        lims == SelectSeq(parts, IsLim)
    IN  [i \in 1..Len(lims) |-> lims[i].text]

TopSucceeded == Returned /\ impl = "generate_sql" /\ handler = "top" /\ Succeeded

(***************************************************************************)
(* C15: every successful TOP_N result has a LIMIT clause whose value is    *)
(* the limit parsed from the text when one is parsed and 10 otherwise,     *)
(* also when only "most" triggers the intent; the explanation reports the  *)
(* same value as the SQL.                                                  *)
(***************************************************************************)
C15_TopLimitClause ==
    TopSucceeded =>
        /\ LimitTexts(result.query) = <<ToString(RequestedLimit(query_text))>>
        /\ Contains(Render(result.query),
                    "LIMIT " \o ToString(RequestedLimit(query_text)) \o ";")
        /\ Contains(result.explanation,
                    "Finding top " \o ToString(RequestedLimit(query_text)) \o " ")

\* a text of customers then orders, asked for the top 10 customers by total
Example2 ==
    /\ Returned /\ impl = "generate_sql"
    /\ query_text = "who are our top 10 customers by total"
    /\ \E j, k \in 1..Len(schema) :
        j < k /\ schema[j] = CustomersTable /\ schema[k] = OrdersTable

(***************************************************************************)
(* C20, as stated: on customers(id, name, email, signup_date) followed by  *)
(* orders(id, customer_id, order_date, total), "who are our top 10         *)
(* customers by total" is handled as TOP_N with limit 10 and groups by a   *)
(* column of the resolved table whose name contains "customer".            *)
(***************************************************************************)
C20_Example2 ==
    Example2 =>
        /\ handler = "top"
        /\ Succeeded
        /\ LimitTexts(result.query) = <<"10">>
        /\ ResolvedIndex # 0
        /\ \E c \in 1..Len(schema[ResolvedIndex].columns) :
            /\ Contains(Lower(schema[ResolvedIndex].columns[c].name), "customer")
            /\ ColumnTexts(result.query)[1] = schema[ResolvedIndex].columns[c].name
            /\ Contains(Render(result.query),
                        "GROUP BY " \o schema[ResolvedIndex].columns[c].name \o " ")

(***************************************************************************)
(* C20, amended: that query is handled as TOP_N with limit 10 on the       *)
(* table customers, which the text names; no column of customers contains  *)
(* "customer", and the column it groups by is "name", the first column     *)
(* whose name contains name, title or description.                         *)
(***************************************************************************)
C20_Example2OnCustomers ==
    Example2 =>
        /\ handler = "top"
        /\ Succeeded
        /\ LimitTexts(result.query) = <<"10">>
        /\ result.table = "customers"
        /\ schema[ResolvedIndex] = CustomersTable
        /\ \A c \in 1..Len(schema[ResolvedIndex].columns) :
            ~Contains(Lower(schema[ResolvedIndex].columns[c].name), "customer")
        /\ LET named == {c \in 1..Len(schema[ResolvedIndex].columns) :
                            Has(schema[ResolvedIndex].columns[c].name,
                                {"name", "title", "description"})}
           IN  /\ named # {}
               /\ ColumnTexts(result.query)[1] = schema[ResolvedIndex].columns[Least(named)].name
        /\ ColumnTexts(result.query)[1] = "name"
        /\ Contains(Render(result.query), "GROUP BY name ")

C20_Witness ==
    /\ Example2
    /\ Succeeded
    /\ result.table = "customers"
    /\ result.x_axis = "name"

\* a trend request that produced SQL
TrendBuilt == Resolved /\ handler = "trend" /\ Succeeded /\ ResolvedIndex # 0

\* the first column of the resolved table whose name holds a time keyword
ChosenTimeColumn ==
    LET cols == schema[ResolvedIndex].columns
        timed == {c \in 1..Len(cols) : Has(cols[c].name, TimeWords)}
    IN  cols[Least(timed)].name

\* the SQL groups on the year-month truncation of the time column
GroupsOnYearMonth ==
    /\ Contains(Render(result.query),
                "SELECT strftime('%Y-%m', " \o ChosenTimeColumn \o ") as time_period,")
    /\ Contains(Render(result.query), "GROUP BY time_period")

\* the SQL groups on the raw value of the time column
GroupsOnRawValue ==
    /\ Contains(Render(result.query), "SELECT " \o ChosenTimeColumn \o " as time_period,")
    /\ Contains(Render(result.query), "GROUP BY time_period")

(***************************************************************************)
(* C16, as stated: in the trend builder, whenever the name of the chosen   *)
(* time column matches the time-keyword list the SQL groups on a           *)
(* year-month truncation of the column; it groups on the raw value only    *)
(* when the name does not match that list.                                 *)
(***************************************************************************)
C16_TimeBucket ==
    TrendBuilt =>
        /\ Has(ChosenTimeColumn, TimeWords) => GroupsOnYearMonth
        /\ GroupsOnRawValue => ~Has(ChosenTimeColumn, TimeWords)

(***************************************************************************)
(* C16, amended: the SQL groups on a year-month truncation of the chosen   *)
(* time column exactly when its lower-cased name contains time, date or    *)
(* _at, and on the raw column value otherwise.                             *)
(***************************************************************************)
C16_TimeBucketDateLike ==
    TrendBuilt =>
        IF Has(ChosenTimeColumn, {"time", "date", "_at"})
        THEN GroupsOnYearMonth /\ ~GroupsOnRawValue
        ELSE GroupsOnRawValue /\ ~GroupsOnYearMonth

C16_Witness ==
    /\ TrendBuilt
    /\ Has(ChosenTimeColumn, TimeWords)
    /\ ~Has(ChosenTimeColumn, {"time", "date", "_at"})
    /\ GroupsOnRawValue

ValueWords == {"count", "amount", "value", "price", "cost", "quantity", "num", "total", "sum"}
NumericTypeWords == {"int", "float", "double", "real", "numeric"}

\* a builder that looks up a numeric column produced SQL on a table that has
\* no value-named column and no numeric-typed column outside the primary key
SentinelCase ==
    /\ Resolved /\ Succeeded /\ ResolvedIndex # 0
    /\ handler \in {"trend", "top", "comparison"}
    /\ \A c \in 1..Len(schema[ResolvedIndex].columns) :
        /\ ~Has(schema[ResolvedIndex].columns[c].name, ValueWords)
        /\ ~Has(schema[ResolvedIndex].columns[c].type, NumericTypeWords)
           \/ schema[ResolvedIndex].columns[c].pk

(***************************************************************************)
(* C17: whenever the numeric-column lookup yields the sentinel *, the      *)
(* aggregate in the SQL is COUNT of *; none of SUM, AVG, MIN, MAX is ever  *)
(* applied to *, whatever aggregation the text suggests.                   *)
(***************************************************************************)
C17_SentinelCountsRows ==
    /\ SentinelCase => Contains(Render(result.query), "COUNT(*)")
    /\ Returned /\ Succeeded =>
        \A f \in {"SUM", "AVG", "MIN", "MAX"} :
            ~Contains(Render(result.query), f \o "(*)")

(***************************************************************************)
(* C18: the visualization hint of a successful result follows the intent:  *)
(* trend gives line with x_axis the time bucket alias and y_axis the value *)
(* alias, top and comparison give bar, and distribution gives pie exactly  *)
(* when the lower-cased text contains "percentage" and bar otherwise.      *)
(***************************************************************************)
C18_VisualizationByIntent ==
    Returned /\ Succeeded =>
        /\ handler \in {"trend", "distribution", "top", "comparison"}
        /\ handler = "trend" =>
            /\ result.visualization_type = "line"
            /\ result.x_axis = "time_period"
            /\ result.y_axis = "value"
            /\ Contains(Render(result.query), " as " \o result.x_axis \o ", ")
            /\ Contains(Render(result.query), ") as " \o result.y_axis \o " ")
        /\ handler \in {"top", "comparison"} => result.visualization_type = "bar"
        /\ handler = "distribution" =>
            result.visualization_type =
                IF Has(query_text, {"percentage"}) THEN "pie" ELSE "bar"

C18_Witness ==
    /\ Returned /\ Succeeded /\ impl = "generate_sql"
    /\ handler = "distribution"
    /\ Has(query_text, {"percentage"})
    /\ query_text # Lower(query_text)
    /\ result.visualization_type = "pie"

\* "show total sales over time" on a schema with sales(id, date, amount, product_id)
Example1 ==
    /\ Returned
    /\ query_text = "show total sales over time"
    /\ \E j \in 1..Len(schema) : schema[j] = SalesTable

(***************************************************************************)
(* C19: on a schema with sales(id, date, amount, product_id), "show total  *)
(* sales over time" is handled as a trend on sales with time column date,  *)
(* numeric column amount and aggregation SUM, grouped by the year-month    *)
(* bucket of date, with success = true and visualization_type = line.      *)
(***************************************************************************)
C19_Example1 ==
    Example1 =>
        /\ handler = "trend"
        /\ Succeeded
        /\ result.table = "sales"
        /\ Contains(Render(result.query),
                    "SELECT strftime('%Y-%m', date) as time_period, SUM(amount) as value")
        /\ Contains(Render(result.query), "FROM sales ")
        /\ Contains(Render(result.query), "GROUP BY time_period")
        /\ ColumnTexts(result.query) = <<"date", "amount", "date">>
        /\ result.visualization_type = "line"

C19_Witness ==
    /\ Example1
    /\ impl = "generate_sql"
    /\ Len(schema) = 2 /\ schema[2] = SalesTable
    /\ Succeeded
    /\ result.visualization_type = "line"

\* a text without its whitespace
RECURSIVE Squeeze(_)
Squeeze(s) ==
    IF Len(s) = 0 THEN ""
    ELSE IF Len(s) = 1 THEN (IF s \in BlankChars THEN "" ELSE s)
    ELSE Squeeze(SubSeq(s, 1, Len(s) \div 2))
            \o Squeeze(SubSeq(s, Len(s) \div 2 + 1, Len(s)))

\* what the other copy of the query core answers to the arguments of the last call
OtherCopyResult ==
    IF impl = "generate_sql" THEN nlp_to_sql(query_text, schema)
    ELSE generate_sql(query_templates, query_text, schema)

\* the intent the other copy picks for the text of the last call
OtherCopyHandler ==
    IF impl = "generate_sql" THEN NlpToSqlHandler(query_text)
    ELSE GenerateSqlHandler(query_templates, query_text)

(***************************************************************************)
(* C27: for every text and schema, nlp_to_sql and generate_sql pick the    *)
(* same intent and return results that agree on success, message, table,   *)
(* visualization_type, x_axis, y_axis and on the SQL up to whitespace.      *)
(***************************************************************************)
C27_CopiesAgree ==
    Returned /\ impl \in {"generate_sql", "nlp_to_sql"} =>
        /\ handler = OtherCopyHandler
        /\ result.kind = "dict"
        /\ OtherCopyResult.kind = "dict"
        /\ result.success = OtherCopyResult.success
        /\ ~result.success => result.message = OtherCopyResult.message
        /\ result.success =>
            /\ result.table = OtherCopyResult.table
            /\ result.visualization_type = OtherCopyResult.visualization_type
            /\ result.x_axis = OtherCopyResult.x_axis
            /\ result.y_axis = OtherCopyResult.y_axis
            /\ Squeeze(Render(result.query)) = Squeeze(Render(OtherCopyResult.query))

CategoryWords == {"type", "category", "name", "status", "level", "tier", "group", "department"}

\* the columns of the table the last call worked on
TableColumns ==
    LET j == CHOOSE j \in 1..Len(schema) : schema[j].name = resolved_table
    IN  schema[j].columns

\* the positions of the columns whose names hold a category keyword
KeywordNamed == {c \in 1..Len(TableColumns) : Has(TableColumns[c].name, CategoryWords)}

Example3 ==
    /\ Returned
    /\ impl = "generate_sql"
    /\ query_text = "what's the distribution of products by category"
    /\ \E j \in 1..Len(schema) :
        /\ schema[j].name = "products"
        /\ \E c \in 1..Len(schema[j].columns) : schema[j].columns[c].name = "category"

(***************************************************************************)
(* C21 as stated: "what's the distribution of products by category" on a   *)
(* schema whose products table has a column named "category" is handled as *)
(* DISTRIBUTION, groups by "category" and is shown as a bar chart.         *)
(***************************************************************************)
C21_Example3 ==
    Example3 =>
        /\ handler = "distribution"
        /\ Succeeded
        /\ result.table = "products"
        /\ result.x_axis = "category"
        /\ \A k \in 1..Len(ColumnTexts(result.query)) :
                ColumnTexts(result.query)[k] = "category"
        /\ result.visualization_type = "bar"

(***************************************************************************)
(* C21 amended: the request is handled as DISTRIBUTION on products, shown  *)
(* as a bar chart, and groups by the first column of products whose name   *)
(* holds a category keyword: "category" only when no column before it has  *)
(* such a name, "name" for products(id, name, category, price).             *)
(***************************************************************************)
C21_Example3FirstKeywordColumn ==
    Example3 =>
        /\ handler = "distribution"
        /\ Succeeded
        /\ result.table = "products"
        /\ resolved_table = "products"
        /\ result.x_axis = TableColumns[Least(KeywordNamed)].name
        /\ \A k \in 1..Len(ColumnTexts(result.query)) :
                ColumnTexts(result.query)[k] = result.x_axis
        /\ result.visualization_type = "bar"
        /\ TableColumns = ProductsTable.columns => result.x_axis = "name"

C21_Witness ==
    /\ Example3
    /\ TableInfo(schema, "products") = ProductsTable
    /\ result.x_axis = "name"

\* the same request where "category" is the first keyword column
C21_WitnessCategory == Example3 /\ Succeeded /\ result.x_axis = "category"

\* the positions of the text-typed columns whose names hold no time keyword
TextTyped ==
    {c \in 1..Len(TableColumns) :
        /\ Has(TableColumns[c].type, {"char", "text"})
        /\ ~Has(TableColumns[c].name, TimeWords)}

\* the positions of the columns outside the primary key
NonKey == {c \in 1..Len(TableColumns) : ~TableColumns[c].pk}

\* the columns of the highest tier that has any
CategoryTier ==
    IF KeywordNamed # {} THEN KeywordNamed
    ELSE IF TextTyped # {} THEN TextTyped
    ELSE IF NonKey # {} THEN NonKey
    ELSE 1..Len(TableColumns)

ExpectedCategoryColumn ==
    IF TableColumns = <<>> THEN None ELSE TableColumns[Least(CategoryTier)].name

CategoryMissing ==
    \/ FailedWith("Could not identify a categorical column for distribution analysis.")
    \/ FailedWith("Could not identify a categorical column for comparison.")

\* a DISTRIBUTION or COMPARISON request that resolved a table
GroupedRequest ==
    /\ Returned
    /\ impl = "generate_sql"
    /\ handler \in {"distribution", "comparison"}
    /\ \E j \in 1..Len(schema) : schema[j].name = resolved_table

(***************************************************************************)
(* C24: _identify_category_column returns the first column of the highest  *)
(* tier that has a column: name with a category keyword, then text type    *)
(* with no time keyword in the name, then not a primary key, then any      *)
(* column. It returns None exactly for a table with zero columns, so a     *)
(* DISTRIBUTION or COMPARISON request fails for a missing category column  *)
(* exactly when the resolved table has no columns.                         *)
(***************************************************************************)
C24_CategoryTiers ==
    /\ Returned /\ impl = "_identify_category_column" =>
        /\ result.value = ExpectedCategoryColumn
        /\ result.value = None <=> TableColumns = <<>>
    /\ GroupedRequest =>
        /\ CategoryMissing <=> TableColumns = <<>>
        /\ ~CategoryMissing => Succeeded /\ result.x_axis = ExpectedCategoryColumn

\* the third tier decides: no keyword name, no text column but the date
C24_Witness ==
    /\ Returned
    /\ impl = "_identify_category_column"
    /\ KeywordNamed = {}
    /\ TextTyped = {}
    /\ result.value = "customer_id"

EntityWords == {"user", "customer", "product", "employee", "account", "item", "client"}

\* the entity nouns that occur in the text
QueryNouns == {e \in EntityWords : Has(query_text, {e})}

\* the positions of the columns whose names hold an entity noun of the text
Mentioning == {c \in 1..Len(TableColumns) : Has(TableColumns[c].name, QueryNouns)}

\* the positions of the columns named like <entity>_id
IdNamed ==
    {c \in 1..Len(TableColumns) :
        Has(TableColumns[c].name, {e \o "_id" : e \in EntityWords})}

Descriptive ==
    {c \in 1..Len(TableColumns) :
        Has(TableColumns[c].name, {"name", "title", "description"})}

KeyColumns == {c \in 1..Len(TableColumns) : TableColumns[c].pk}

CalledIdentifyEntityColumn == Returned /\ impl = "_identify_entity_column"

\* the names of the columns at the positions S
NamesAt(S) == {TableColumns[c].name : c \in S}

(***************************************************************************)
(* C25: _identify_entity_column returns a column whose name holds an       *)
(* entity noun of the text; else a column named like <entity>_id; else the *)
(* first column named name/title/description; else the first primary-key   *)
(* column; else the first column. A column that mentions a noun of the     *)
(* text wins over a name/title/description column, and the result is None  *)
(* exactly when the table has no columns.                                  *)
(***************************************************************************)
C25_EntityTiers ==
    CalledIdentifyEntityColumn =>
        /\ result.value = None <=> TableColumns = <<>>
        /\ Mentioning # {} => result.value \in NamesAt(Mentioning)
        /\ Mentioning = {} /\ IdNamed # {} => result.value \in NamesAt(IdNamed)
        /\ Mentioning = {} /\ IdNamed = {} /\ Descriptive # {} =>
                result.value = TableColumns[Least(Descriptive)].name
        /\ Mentioning = {} /\ IdNamed = {} /\ Descriptive = {} /\ KeyColumns # {} =>
                result.value = TableColumns[Least(KeyColumns)].name
        /\ Mentioning = {} /\ IdNamed = {} /\ Descriptive = {} /\ KeyColumns = {}
                /\ TableColumns # <<>> =>
                result.value = TableColumns[1].name

\* a column that mentions a noun of the text wins over an earlier title
\* column
C25_Witness ==
    /\ CalledIdentifyEntityColumn
    /\ Mentioning # {}
    /\ Descriptive # {}
    /\ Least(Descriptive) < Least(Mentioning)
    /\ result.value = "product_ref"

(***************************************************************************)
(* C23: no call of the query core (generate_sql with any intent, the table *)
(* resolver, the four column classifiers) changes the schema it is given:  *)
(* the tables, their columns and their row counts after the call are       *)
(* those before it.                                                        *)
(***************************************************************************)
C23_SchemaUnchanged == [][pc = "input" /\ pc' = "returned" => schema' = schema]_vars

\* a request that resolved a table and read its columns has returned
C23_Witness ==
    /\ Returned
    /\ impl = "generate_sql"
    /\ Succeeded
    /\ Len(schema) = 2
    /\ TableInfo(schema, result.table).columns # <<>>

\* how many of the submitted queries the history may keep
KeptCount == IF Len(submitted) < 5 THEN Len(submitted) ELSE 5

(***************************************************************************)
(* C29: after any sequence of update_context calls, previous_queries holds *)
(* at most 5 entries, and they are the most recent min(n, 5) of the n      *)
(* submitted queries, in the order they were submitted.                    *)
(***************************************************************************)
C29_HistoryKeepsLastFive ==
    /\ Len(context.previous_queries) <= 5
    /\ context.previous_queries =
            SubSeq(submitted, Len(submitted) - KeptCount + 1, Len(submitted))

\* two queries were dropped, and the oldest kept one differs from them
C29_Witness ==
    /\ Len(submitted) = 7
    /\ Len(context.previous_queries) = 5
    /\ context.previous_queries[1] = submitted[3]
    /\ submitted[3] # submitted[1]
    /\ submitted[3] # submitted[2]

\* the known tables that a query mentions, in the order of the known tables
MentionedBy(query) ==
    SelectSeq(<<"sales", "products", "customers", "orders">>,
              LAMBDA t : Has(query, {t}))

\* the submitted queries that mention a known table
Mentioning_queries == {i \in 1..Len(submitted) : MentionedBy(submitted[i]) # <<>>}

\* the tables of the most recent query that mentioned any
Remembered ==
    IF Mentioning_queries = {} THEN <<>>
    ELSE MentionedBy(submitted[CHOOSE i \in Mentioning_queries :
                                    \A j \in Mentioning_queries : j <= i])

\* does the query name a table of the loaded schemas
NamesLoadedTable ==
    \E s \in 1..Len(schemas) : \E t \in 1..Len(schemas[s].value.tables) :
        Has(query_text, {schemas[s].value.tables[t].name})

\* does the SQL read from the table
RunsAgainst(sql, table) ==
    LET tail == " FROM " \o table
    IN  /\ Len(sql) > Len(tail)
        /\ SubSeq(sql, Len(sql) - Len(tail) + 1, Len(sql)) = tail

ProcessedQuery == impl = "process_query" /\ result.kind = "dict"

(***************************************************************************)
(* C30: after any sequence of process_query calls, current_tables is the   *)
(* list of known tables (sales, products, customers, orders) mentioned by  *)
(* the most recent query that mentioned any, and empty if none did; a      *)
(* query that names no table of the loaded schemas runs against the first  *)
(* of these tables, and the SQL is "SELECT 1" only when no query so far,   *)
(* the current one included, mentioned a known table.                      *)
(***************************************************************************)
C30_FollowUpContext ==
    /\ context.current_tables = Remembered
    /\ ProcessedQuery =>
        /\ ~NamesLoadedTable /\ Remembered # <<>> =>
                RunsAgainst(result.interpreted_query, Remembered[1])
        /\ ~NamesLoadedTable /\ Remembered = <<>> =>
                result.interpreted_query = "SELECT 1"
        /\ result.interpreted_query = "SELECT 1" => Remembered = <<>>

\* a follow-up that mentions no table runs against the first table of an
\* earlier query that mentioned two
C30_Witness ==
    /\ ProcessedQuery
    /\ Len(submitted) = 3
    /\ MentionedBy(submitted[3]) = <<>>
    /\ MentionedBy(submitted[2]) = <<>>
    /\ Len(Remembered) = 2
    /\ RunsAgainst(result.interpreted_query, Remembered[1])

\* the first row of the result set the last call was given
FirstRow == IF results = <<>> THEN <<>> ELSE results[1]

\* the type the selector gives to column c of the first row
KindOf(c) == _infer_column_type(FirstRow[c].value, FirstRow[c].name)

\* the positions of the columns of the first row of a kind
OfKind(kind) == {c \in 1..Len(FirstRow) : KindOf(c) = kind}

\* the name of the first column of a kind, in the first row's column order
FirstOfKind(kind) == FirstRow[Least(OfKind(kind))].name

\* the chart type the decision order gives
ExpectedChart ==
    IF OfKind("date") # {} /\ OfKind("numeric") # {}
        /\ Has(query_text, {"over time", "trend"})
    THEN "line-chart"
    ELSE IF OfKind("categorical") # {} /\ OfKind("numeric") # {}
        /\ Has(query_text, {"compare", "by category"})
    THEN "bar-chart"
    ELSE IF OfKind("categorical") # {} /\ OfKind("numeric") # {}
        /\ Has(query_text, {"distribution", "percentage"})
    THEN "pie-chart"
    ELSE "table"

\* the bindings of a recommendation are the first columns of the required
\* types
BindsFirstColumns ==
    CASE result.type = "line-chart" ->
            /\ result.config.x_axis = FirstOfKind("date")
            /\ result.config.y_axis = FirstOfKind("numeric")
      [] result.type = "bar-chart" ->
            /\ result.config.x_axis = FirstOfKind("categorical")
            /\ result.config.y_axis = FirstOfKind("numeric")
      [] result.type = "pie-chart" ->
            /\ result.config.label_column = FirstOfKind("categorical")
            /\ result.config.value_column = FirstOfKind("numeric")
      [] OTHER -> result.config.columns = Keys(FirstRow)

CalledRecommend == Returned /\ impl = "recommend_visualization"

(***************************************************************************)
(* C22: recommend_visualization returns the first rule that applies, in    *)
(* the order line-chart, bar-chart, pie-chart, table; for every result     *)
(* set, the empty one included, the returned type is one of the four, and  *)
(* each binding is the first column of the required type in the column     *)
(* order of the first row.                                                 *)
(***************************************************************************)
C22_SelectorRules ==
    CalledRecommend =>
        /\ result.kind = "dict"
        /\ result.type \in {"line-chart", "bar-chart", "pie-chart", "table"}
        /\ results # <<>> => result.type = ExpectedChart /\ BindsFirstColumns

\* the part of C22 about the result sets that have a row
C22_SelectorRulesNonEmpty ==
    CalledRecommend /\ results # <<>> =>
        /\ result.kind = "dict"
        /\ result.type = ExpectedChart
        /\ BindsFirstColumns

DateWords == {"date", "time", "year"}

\* is the value a number, or a str that float() accepts
LooksNumeric(value) ==
    \/ value.type \in {"int", "float", "bool"}
    \/ value.type = "str" /\ _is_numeric(value.text)

\* does the str start like 2023-01-01, 01/01/2023 or 01-01-2023
StartsLikeDate(value) ==
    /\ value.type = "str"
    /\ Len(value.text) >= 10
    /\ LET at == [k \in 1..10 |-> SubSeq(value.text, k, k)]
           Digits(S) == \A k \in S : at[k] \in DigitChars
       IN  \/ Digits({1, 2, 3, 4, 6, 7, 9, 10}) /\ at[5] = "-" /\ at[8] = "-"
           \/ Digits({1, 2, 4, 5, 7, 8, 9, 10}) /\ at[3] = "/" /\ at[6] = "/"
           \/ Digits({1, 2, 4, 5, 7, 8, 9, 10}) /\ at[3] = "-" /\ at[6] = "-"

CalledAnalyze == Returned /\ impl = "_analyze_data_structure"

\* the type recorded for column c of the first row
RecordedType(c) == result.value.columns[c].type

(***************************************************************************)
(* C26 as stated: each column of the first row is classified as date if    *)
(* its name contains a date/time keyword, otherwise numeric if its value   *)
(* is a number or a numeric-looking string, otherwise categorical; a       *)
(* column whose name contains no date/time keyword is never a date.        *)
(***************************************************************************)
C26_ClassifiedByName ==
    CalledAnalyze =>
        /\ Len(result.value.columns) = Len(FirstRow)
        /\ \A c \in 1..Len(FirstRow) :
            /\ result.value.columns[c].name = FirstRow[c].name
            /\ RecordedType(c) =
                    IF Has(FirstRow[c].name, DateWords) THEN "date"
                    ELSE IF LooksNumeric(FirstRow[c].value) THEN "numeric"
                    ELSE "categorical"
            /\ ~Has(FirstRow[c].name, DateWords) => RecordedType(c) # "date"

(***************************************************************************)
(* C26 amended: each column of the first row is classified as date if its  *)
(* name contains "date", "time" or "year" or its value is a string that    *)
(* starts like a date (2023-01-01, 01/01/2023, 01-01-2023), otherwise      *)
(* numeric if its value is a number or a numeric-looking string, otherwise *)
(* categorical; a column whose name contains no such keyword is a date     *)
(* exactly when its value is such a string.                                *)
(***************************************************************************)
C26_ClassifiedByNameOrValue ==
    CalledAnalyze =>
        /\ Len(result.value.columns) = Len(FirstRow)
        /\ \A c \in 1..Len(FirstRow) :
            /\ result.value.columns[c].name = FirstRow[c].name
            /\ RecordedType(c) =
                    IF Has(FirstRow[c].name, DateWords) \/ StartsLikeDate(FirstRow[c].value)
                    THEN "date"
                    ELSE IF LooksNumeric(FirstRow[c].value) THEN "numeric"
                    ELSE "categorical"
            /\ ~Has(FirstRow[c].name, DateWords) =>
                    (RecordedType(c) = "date" <=> StartsLikeDate(FirstRow[c].value))

\* a column named without a keyword is a date by its value, next to a
\* numeric string and a date by name
C26_Witness ==
    /\ CalledAnalyze
    /\ \E c \in 1..Len(FirstRow) :
        /\ ~Has(FirstRow[c].name, DateWords)
        /\ StartsLikeDate(FirstRow[c].value)
        /\ RecordedType(c) = "date"
    /\ \E c \in 1..Len(FirstRow) :
        FirstRow[c].value.type = "str" /\ RecordedType(c) = "numeric"
    /\ \E c \in 1..Len(FirstRow) :
        Has(FirstRow[c].name, DateWords) /\ RecordedType(c) = "date"

\* what the selector recommends for the rows and the text of the last call
Recommended == recommend_visualization(results, query_text)

\* is the name a column of the result rows
IsResultColumn(name) == \E c \in 1..Len(FirstRow) : FirstRow[c].name = name

\* generate_insight ran on a result set for which the selector recommends a
\* line or bar chart over two columns of the rows
ChartRecommended ==
    /\ Returned
    /\ impl = "generate_insight"
    /\ result.success
    /\ Recommended.kind = "dict"
    /\ Recommended.type \in {"line-chart", "bar-chart"}
    /\ IsResultColumn(Recommended.config.x_axis)
    /\ IsResultColumn(Recommended.config.y_axis)

(***************************************************************************)
(* C28: whenever recommend_visualization returns line-chart or bar-chart   *)
(* with x_axis and y_axis that are columns of the result rows,             *)
(* generate_insight reports the type line or bar accordingly and plots     *)
(* exactly these two columns as x and y.                                   *)
(***************************************************************************)
C28_BindingsReachChart ==
    ChartRecommended =>
        /\ result.type = IF Recommended.type = "line-chart" THEN "line" ELSE "bar"
        /\ result.visualization =
                Figure(result.type, Recommended.config.x_axis, Recommended.config.y_axis)

====
